---------------------------- MODULE Spec2Model ----------------------------
(***************************************************************************)
(* A model of the 2048 engine of miniapp-2048: the seeded generator, the   *)
(* grid transition (src/utils/gridUtils.ts) and the game session kept by   *)
(* the useGameLogic hook (src/hooks/useGameLogic.ts): its React state, its *)
(* refs, the continuations it leaves pending (the hash of a move, the      *)
(* spawn timer, the seed request, the season initialisation) and the       *)
(* snapshot it keeps in localStorage.                                      *)
(***************************************************************************)
EXTENDS Integers, Sequences, FiniteSets, TLC

(***************************************************************************)
(* 32-bit arithmetic.  TLC's integers are 32-bit, the generator works on   *)
(* values up to 2^53, so a 32-bit magnitude is kept as two 16-bit limbs.   *)
(***************************************************************************)
Limb == 65536

U32(h, l) == [hi |-> h, lo |-> l]

AddU32(x, y) ==
  LET l == x.lo + y.lo
  IN  U32((x.hi + y.hi + (l \div Limb)) % Limb, l % Limb)

\* (x - y) mod 2^32
SubU32(x, y) ==
  LET l == x.lo - y.lo
      b == IF l < 0 THEN 1 ELSE 0
  IN  U32((x.hi - y.hi - b + 2 * Limb) % Limb, (l + Limb) % Limb)

\* (k * x) mod 2^32 for a multiplier k = kh * 2^16 + kl
MulU32(kh, kl, x) ==
  LET p   == kl * x.lo
      mid == kh * x.lo + (kl % Limb) * x.hi + (p \div Limb)
  IN  U32(mid % Limb, p % Limb)

IsZeroU32(x) == x.hi = 0 /\ x.lo = 0

\* 2^32 - x for x # 0
NegU32(x) == SubU32(U32(0, 0), x)

(***************************************************************************)
(* SeededRandom.  The field `seed' is a JavaScript number: an integer of   *)
(* either sign whose magnitude stays below 2^32 after the first step; it   *)
(* is kept as sign and magnitude.  `calls' counts the next() calls made on *)
(* the object (not a field of the class; it is what the draw-count         *)
(* statements of the specification speak about).                           *)
(***************************************************************************)
LcgAHi == 25
LcgALo == 26125
LcgCHi == 15470
LcgCLo == 62303
LcgA   == 1664525
LcgC   == 1013904223

\* hash = ((hash << 5) - hash) + char; hash |= 0 : 31 * hash + char wrapped
\* to 32 bits; the residue is kept here, the sign is read off at the end.
RECURSIVE FoldSeed(_, _)
FoldSeed(hash, seedStr) ==
  IF seedStr = <<>> THEN hash
  ELSE LET l == 31 * hash.lo + Head(seedStr)
           h == 31 * hash.hi + (l \div Limb)
       IN  FoldSeed(U32(h % Limb, l % Limb), Tail(seedStr))

\* new SeededRandom(seedStr)
SeededRandom(seedStr) ==
  LET u == FoldSeed(U32(0, 0), seedStr)
  IN  IF u.hi >= Limb \div 2
      THEN [neg |-> TRUE,  mag |-> NegU32(u), calls |-> 0]
      ELSE [neg |-> FALSE, mag |-> u,        calls |-> 0]

\* A step that multiplies and adds on the magnitude whatever the sign.
LcgStepUnsigned(p) ==
  [neg |-> p.neg, mag |-> AddU32(MulU32(LcgAHi, LcgALo, p.mag), U32(LcgCHi, LcgCLo))]

\* this.seed = (this.a * this.seed + this.c) % this.m, the remainder taking
\* the sign of the dividend.
LcgStep(p) ==
  LET am == MulU32(LcgAHi, LcgALo, p.mag)
      c  == U32(LcgCHi, LcgCLo)
  IN  IF ~p.neg
      THEN [neg |-> FALSE, mag |-> AddU32(am, c)]
      ELSE IF p.mag.hi = 0 /\ p.mag.lo <= LcgC \div LcgA
           THEN \* c - a * |seed| >= 0 and below 2^32
                [neg |-> FALSE, mag |-> SubU32(c, am)]
           ELSE LET d == SubU32(am, c)
                IN  [neg |-> ~IsZeroU32(d), mag |-> d]

\* the generator after next()
Advance(p) ==
  LET s == LcgStep(p)
  IN  [neg |-> s.neg, mag |-> s.mag, calls |-> p.calls + 1]

\* A next() that returns seed / m as it is.
ReturnedUnadjusted(p) == p.mag

\* The value next() returns from the state it has just stored, times 2^32:
\* result = seed / m; result < 0 ? result + 1 : result.
Returned(p) == IF p.neg THEN NegU32(p.mag) ELSE p.mag

\* Math.floor(r * n) for r = k / 2^32 and 0 < n <= 16
FloorTimes(k, n) == (k.hi * n + ((k.lo * n) \div Limb)) \div Limb

\* r < 0.9 for r = k / 2^32: k * 10 < 9 * 2^32 (the double 0.9 lies
\* strictly between 3865470566 / 2^32 and 3865470567 / 2^32)
BelowNineTenths(k) == k.hi * 10 + ((k.lo * 10) \div Limb) < 9 * Limb


(***************************************************************************)
(* Tiles and grids (src/types.ts, src/utils/gridUtils.ts).  An optional    *)
(* field that is absent reads as FALSE (isNew, isMerged) or as NoWinner    *)
(* (winnerId): the code only tests them for truth or compares winnerId     *)
(* with an id, and ids start at 1.  A grid cell that holds null is 0 in a  *)
(* grid of values and the empty sequence in a grid of tiles.               *)
(***************************************************************************)
GRID_SIZE == 4
Idx == 0 .. GRID_SIZE - 1
NoWinner == 0

Tile(i, v, r, c, n) ==
  [id |-> i, value |-> v, row |-> r, col |-> c,
   isNew |-> n, isMerged |-> FALSE, winnerId |-> NoWinner]

RECURSIVE PlaceValues(_, _)
PlaceValues(grid, tiles) ==
  IF tiles = <<>> THEN grid
  ELSE LET t == Head(tiles)
       IN  PlaceValues(
             IF t.row \in Idx /\ t.col \in Idx /\ grid[t.row][t.col] = 0
             THEN [grid EXCEPT ![t.row][t.col] = t.value]
             ELSE grid,
             Tail(tiles))

\* the first tile of a cell gives the cell's value
tilesToGrid(tiles) == PlaceValues([r \in Idx |-> [c \in Idx |-> 0]], tiles)

RECURSIVE EmptyFrom(_, _)
EmptyFrom(grid, k) ==
  IF k = GRID_SIZE * GRID_SIZE THEN <<>>
  ELSE LET r == k \div GRID_SIZE
           c == k % GRID_SIZE
       IN  (IF grid[r][c] = 0 THEN <<[row |-> r, col |-> c]>> ELSE <<>>)
           \o EmptyFrom(grid, k + 1)

\* The empty cells column by column.
RECURSIVE EmptyFromByColumn(_, _)
EmptyFromByColumn(grid, k) ==
  IF k = GRID_SIZE * GRID_SIZE THEN <<>>
  ELSE LET c == k \div GRID_SIZE
           r == k % GRID_SIZE
       IN  (IF grid[r][c] = 0 THEN <<[row |-> r, col |-> c]>> ELSE <<>>)
           \o EmptyFromByColumn(grid, k + 1)
getEmptyCellsByColumn(grid) == EmptyFromByColumn(grid, 0)

\* the empty cells in row-major order
getEmptyCells(grid) == EmptyFrom(grid, 0)

\* The cell the first draw selects: emptyCells[Math.floor(prng.next() * n)]
ChosenCell(emptyCells, k) == emptyCells[FloorTimes(k, Len(emptyCells)) + 1]

\* prng.next() < 0.9 ? 2 : 4
ChosenValue(k) == IF BelowNineTenths(k) THEN 2 ELSE 4

\* A spawn that draws once: the cell is drawn, the value is always 2.
addRandomTileOneDraw(tiles, p, tileIdCounter) ==
  LET emptyCells == getEmptyCells(tilesToGrid(tiles))
  IN  IF Len(emptyCells) = 0
      THEN [newTiles |-> tiles, newCounter |-> tileIdCounter, prng |-> p]
      ELSE LET p1   == Advance(p)
               cell == ChosenCell(emptyCells, Returned(p1))
           IN  [newTiles   |-> Append(tiles, Tile(tileIdCounter, 2, cell.row, cell.col, TRUE)),
                newCounter |-> tileIdCounter + 1,
                prng       |-> p1]

\* addRandomTile; `prng' is the generator object after the call
addRandomTile(tiles, p, tileIdCounter) ==
  LET emptyCells == getEmptyCells(tilesToGrid(tiles))
  IN  IF Len(emptyCells) = 0
      THEN [newTiles |-> tiles, newCounter |-> tileIdCounter, prng |-> p]
      ELSE LET p1   == Advance(p)
               cell == ChosenCell(emptyCells, Returned(p1))
               p2   == Advance(p1)
               v    == ChosenValue(Returned(p2))
           IN  [newTiles   |-> Append(tiles, Tile(tileIdCounter, v, cell.row, cell.col, TRUE)),
                newCounter |-> tileIdCounter + 1,
                prng       |-> p2]

generateInitialTiles(p) ==
  LET res1 == addRandomTile(<<>>, p, 1)
      res2 == addRandomTile(res1.newTiles, res1.prng, res1.newCounter)
  IN  [initialTiles |-> res2.newTiles, newCounter |-> res2.newCounter, prng |-> res2.prng]

\* newGrid[c][GRID_SIZE - 1 - r] = grid[r][c]
rotateGrid(grid) == [r \in Idx |-> [c \in Idx |-> grid[GRID_SIZE - 1 - c][r]]]

RECURSIVE rotateTimes(_, _)
rotateTimes(grid, n) == IF n = 0 THEN grid ELSE rotateTimes(rotateGrid(grid), n - 1)

\* The loop of slideAndMergeRow on `filtered' (1-based here, i is the code's i).
\* A loop that looks at the winner of a merge again: merges cascade.
RECURSIVE MergeLoopCascade(_, _, _, _)
MergeLoopCascade(filtered, i, mergedTiles, scoreIncrease) ==
  IF ~(i < Len(filtered) - 1)
  THEN [filtered |-> filtered, mergedTiles |-> mergedTiles, scoreIncrease |-> scoreIncrease]
  ELSE IF filtered[i + 1].value = filtered[i + 2].value
       THEN LET winner == [filtered[i + 1] EXCEPT !.value = 2 * @, !.isMerged = TRUE]
                loser  == [filtered[i + 2] EXCEPT !.winnerId = winner.id]
                rest   == SubSeq(filtered, 1, i) \o <<winner>>
                          \o SubSeq(filtered, i + 3, Len(filtered))
            IN  MergeLoopCascade(rest, i, Append(mergedTiles, loser),
                                 scoreIncrease + winner.value)
       ELSE MergeLoopCascade(filtered, i + 1, mergedTiles, scoreIncrease)

RECURSIVE MergeLoop(_, _, _, _)
MergeLoop(filtered, i, mergedTiles, scoreIncrease) ==
  IF ~(i < Len(filtered) - 1)
  THEN [filtered |-> filtered, mergedTiles |-> mergedTiles, scoreIncrease |-> scoreIncrease]
  ELSE IF filtered[i + 1].value = filtered[i + 2].value
       THEN LET winner == [filtered[i + 1] EXCEPT !.value = 2 * @, !.isMerged = TRUE]
                loser  == [filtered[i + 2] EXCEPT !.winnerId = winner.id]
                rest   == SubSeq(filtered, 1, i) \o <<winner>>
                          \o SubSeq(filtered, i + 3, Len(filtered))
            IN  MergeLoop(rest, i + 1, Append(mergedTiles, loser),
                          scoreIncrease + winner.value)
       ELSE MergeLoop(filtered, i + 1, mergedTiles, scoreIncrease)

RECURSIVE FilterRow(_, _)
FilterRow(row, c) ==
  IF c = GRID_SIZE THEN <<>> ELSE row[c] \o FilterRow(row, c + 1)

slideAndMergeRow(row) ==
  LET res == MergeLoop(FilterRow(row, 0), 0, <<>>, 0)
      f   == res.filtered
  IN  [newRow |-> [c \in Idx |-> IF c < Len(f) THEN <<[f[c + 1] EXCEPT !.col = c]>> ELSE <<>>],
       scoreIncrease |-> res.scoreIncrease,
       mergedTiles   |-> res.mergedTiles]

\* A switch with the cases of up and down exchanged.
RotationsExchanged(direction) ==
  CASE direction = "up"    -> 1
    [] direction = "right" -> 2
    [] direction = "down"  -> 3
    [] direction = "left"  -> 0

\* the switch on direction in move
Rotations(direction) ==
  CASE direction = "up"    -> 3
    [] direction = "right" -> 2
    [] direction = "down"  -> 1
    [] direction = "left"  -> 0

RECURSIVE PlaceTiles(_, _)
PlaceTiles(grid, tiles) ==
  IF tiles = <<>> THEN grid
  ELSE LET t == Head(tiles)
       IN  PlaceTiles([grid EXCEPT ![t.row][t.col] = <<t>>], Tail(tiles))

\* JSON.stringify(grid.map(r => r.map(t => t?.value || null)))
ValueLayout(grid) ==
  [r \in Idx |-> [c \in Idx |-> IF grid[r][c] = <<>> THEN 0 ELSE grid[r][c][1].value]]

RECURSIVE CollectTiles(_, _)
CollectTiles(grid, k) ==
  IF k = GRID_SIZE * GRID_SIZE THEN <<>>
  ELSE LET r == k \div GRID_SIZE
           c == k % GRID_SIZE
       IN  (IF grid[r][c] = <<>> THEN <<>>
            ELSE <<[grid[r][c][1] EXCEPT !.row = r, !.col = c]>>)
           \o CollectTiles(grid, k + 1)

RECURSIVE ConcatAll(_, _)
ConcatAll(f, r) == IF r = GRID_SIZE THEN <<>> ELSE f[r] \o ConcatAll(f, r + 1)

RECURSIVE SumAll(_, _)
SumAll(f, r) == IF r = GRID_SIZE THEN 0 ELSE f[r] + SumAll(f, r + 1)

\* allMergedTiles.forEach: a loser takes the position of its winner
PlaceLoser(loser, finalTiles) ==
  LET ws == {i \in 1 .. Len(finalTiles) : finalTiles[i].id = loser.winnerId}
  IN  IF ws = {} THEN loser
      ELSE LET w == finalTiles[CHOOSE i \in ws : \A j \in ws : i <= j]
           IN  [loser EXCEPT !.row = w.row, !.col = w.col]

\* A comparison that always finds a difference.
LayoutHasChangedAlways(before, after) == TRUE

\* const hasMoved = originalGridForComparison !== JSON.stringify(...)
LayoutHasChanged(before, after) == ValueLayout(before) # ValueLayout(after)

move(tiles, direction) ==
  LET workingTiles == [i \in 1 .. Len(tiles) |->
                         [tiles[i] EXCEPT !.isNew = FALSE, !.isMerged = FALSE,
                                          !.winnerId = NoWinner]]
      grid0     == PlaceTiles([r \in Idx |-> [c \in Idx |-> <<>>]], workingTiles)
      rotations == Rotations(direction)
      rotated   == rotateTimes(grid0, rotations)
      rows      == [r \in Idx |->
                      slideAndMergeRow(
                        [c \in Idx |-> IF rotated[r][c] = <<>> THEN <<>>
                                       ELSE <<[rotated[r][c][1] EXCEPT !.row = r]>>])]
      slid      == [r \in Idx |-> rows[r].newRow]
      grid1     == rotateTimes(slid, (4 - rotations) % 4)
      finalTiles == CollectTiles(grid1, 0)
      losers    == ConcatAll([r \in Idx |-> rows[r].mergedTiles], 0)
  IN  [newTiles      |-> finalTiles,
       mergedTiles   |-> [i \in 1 .. Len(losers) |-> PlaceLoser(losers[i], finalTiles)],
       scoreIncrease |-> SumAll([r \in Idx |-> rows[r].scoreIncrease], 0),
       hasMoved      |-> LayoutHasChanged(grid0, grid1)]

\* A check that never finds the game over.
checkIsGameOverNever(tiles) == FALSE

\* A check that looks at the right neighbour only.
checkIsGameOverRowsOnly(tiles) ==
  IF Len(tiles) < GRID_SIZE * GRID_SIZE THEN FALSE
  ELSE LET grid == tilesToGrid(tiles)
       IN  \A r \in Idx : \A c \in Idx :
             /\ grid[r][c] # 0
             /\ ~(c + 1 < GRID_SIZE /\ grid[r][c + 1] = grid[r][c])

\* isGameOver of gridUtils.ts (imported by the hook as checkIsGameOver)
checkIsGameOver(tiles) ==
  IF Len(tiles) < GRID_SIZE * GRID_SIZE THEN FALSE
  ELSE LET grid == tilesToGrid(tiles)
       IN  \A r \in Idx : \A c \in Idx :
             /\ grid[r][c] # 0
             /\ ~(r + 1 < GRID_SIZE /\ grid[r + 1][c] = grid[r][c])
             /\ ~(c + 1 < GRID_SIZE /\ grid[r][c + 1] = grid[r][c])

directionMap == <<"up", "right", "down", "left">>

\* the body of if (hasMoved) in the replay loop: the spawn, the score
ReplaySpawn(st, moveResult, r) ==
  [tiles |-> r.newTiles, score |-> st.score + moveResult.scoreIncrease,
   tileIdCounter |-> r.newCounter, prng |-> r.prng]

\* a replay that spawns whether or not the move has moved a tile
ReplayMoveAlways(st, moveResult) ==
  ReplaySpawn(st, moveResult,
              addRandomTile(moveResult.newTiles, st.prng, st.tileIdCounter))

\* if (moveResult.hasMoved) { ... }
ReplayMove(st, moveResult) ==
  IF moveResult.hasMoved
  THEN ReplaySpawn(st, moveResult,
                   addRandomTile(moveResult.newTiles, st.prng, st.tileIdCounter))
  ELSE st

\* one iteration of the replay loop of verifyGame; st = [tiles, score,
\* tileIdCounter, prng]
VerifyStep(st, moveDirectionIndex) ==
  IF moveDirectionIndex < 0 \/ moveDirectionIndex > 3 THEN st
  ELSE ReplayMove(st, move(st.tiles, directionMap[moveDirectionIndex + 1]))

RECURSIVE VerifyLoop(_, _)
VerifyLoop(st, ms) ==
  IF ms = <<>> THEN st ELSE VerifyLoop(VerifyStep(st, Head(ms)), Tail(ms))

\* the state the replay loop starts in
ReplayStart(g) ==
  [tiles |-> g.initialTiles, score |-> 0,
   tileIdCounter |-> g.newCounter, prng |-> g.prng]

\* return { finalScore: score, finalTiles: tiles }; the generator and the id
\* counter the replay ends with are kept beside them
ReplayResult(st) ==
  [finalScore |-> st.score, finalTiles |-> st.tiles,
   tileIdCounter |-> st.tileIdCounter, prng |-> st.prng]

verifyGame(seedStr, ms) ==
  ReplayResult(VerifyLoop(ReplayStart(generateInitialTiles(SeededRandom(seedStr))), ms))


(***************************************************************************)
(* The session of useGameLogic.                                            *)
(*                                                                         *)
(* One step of the model is one task of the event loop (a handler, the     *)
(* continuation of an await, a timer callback) together with the render it *)
(* causes and the effects of that render; the save effect is therefore a   *)
(* part of every step.  null is 0 for the generator reference and for      *)
(* startTime, the empty sequence for seed and the empty string for         *)
(* randomness.                                                             *)
(***************************************************************************)
VARIABLES
  \* React state
  tiles, score, isGameOver, isWon, isMoving, moves, finalMovesHash, prng,
  seed, randomness, startTime, isInitializing,
  \* refs
  tileIdCounterRef, moveTimeoutRef, gameIdRef, newGameLoadingRef,
  seasonTransitionRef,
  \* the SeededRandom objects allocated so far; prng is an index into it
  heap,
  \* pending continuations: performMove at its await of sha256, the spawn
  \* timers, newGame at its await of the seed request, the season
  \* initialisations at their awaits, the setTimeout(.., 0) of the latter
  hashing, timers, fetching, inits, transitionTimers,
  \* the environment: the season prop, localStorage, the timer ids
  activeSeason, storage, nextTimer,
  \* the task that made the last step; the moves accepted and the
  \* disturbances (new-game presses, season changes, page reloads, failed
  \* requests and hashes) so far
  last, used,
  \* book-keeping the program does not have: the accepted moves of the
  \* session whose spawn has not been applied
  inFlight,
  \* the argument and the result of a call of the grid engine on its own
  probe

gameVars == <<tiles, score, isGameOver, isWon, isMoving, moves, finalMovesHash,
              prng, seed, randomness, startTime, inFlight>>
refVars  == <<tileIdCounterRef, moveTimeoutRef, gameIdRef, newGameLoadingRef,
              seasonTransitionRef>>
taskVars == <<hashing, timers, fetching, inits, transitionTimers, nextTimer>>
vars == <<gameVars, isInitializing, refVars, heap, taskVars, activeSeason,
          storage, last, used, probe>>

\* Bounds of the model
MaxMoves  == 2    \* moves accepted in one run
MaxEvents == 1    \* disturbances in one run

Played == [used EXCEPT !.moves = @ + 1]
Disturbed == [used EXCEPT !.events = @ + 1]

Directions == {"up", "right", "down", "left"}
MoveCode(direction) ==
  CASE direction = "up"    -> 0
    [] direction = "right" -> 1
    [] direction = "down"  -> 2
    [] direction = "left"  -> 3

Seasons       == {"farcaster", "base-s0"}
DefaultSeason == "farcaster"
NoSeason      == "none"

\* What /api/start-game can answer.
\* An answer can be OK and lack a field: the field then reads undefined
\* ("" for randomness, 0 for startTime).
Responses == {[ok |-> TRUE,  randomness |-> "r1", startTime |-> 1001],
              [ok |-> TRUE,  randomness |-> "r2", startTime |-> 1002],
              [ok |-> FALSE, randomness |-> "",   startTime |-> 0],
              [ok |-> TRUE,  randomness |-> "",   startTime |-> 1001],
              [ok |-> TRUE,  randomness |-> "r1", startTime |-> 0]}

\* the answer is OK and has both fields
Complete(response) ==
  response.ok /\ response.randomness # "" /\ response.startTime # 0

\* crypto.subtle.digest('SHA-256', randomness + address + startTime) in hex.
\* The digest is not computed: it is a table, injective on the answers
\* above, and of a digest only the first eight hex characters are kept
\* (as character codes).  The player is anonymous (address '').
\* A field that is undefined is hashed as the text "undefined".
SeedDigest(rnd, start) ==
  CASE rnd = "r1" /\ start = 1001 -> <<48, 102, 51, 101, 57, 97, 55, 99>>  \* "0f3e9a7c"
    [] rnd = ""                   -> <<55, 100, 48, 52, 98, 54, 101, 50>>  \* "7d04b6e2"
    [] start = 0                  -> <<99, 56, 53, 102, 49, 97, 51, 57>>   \* "c85f1a39"
    [] OTHER                      -> <<97, 49, 98, 50, 99, 51, 100, 52>>   \* "a1b2c3d4"

\* INITIAL_MOVES_HASH: 32 zero bytes
INITIAL_MOVES_HASH == <<"zero">>

\* sha256 of gridUtils over prevHashBytes followed by the move byte: an
\* ideal hash, the digest being the term built from what was hashed.
sha256(prevHash, moveByte) == <<"sha256", prevHash, moveByte>>

ANIMATION_DURATION == 200

Snapshot(t, sc, go, won, sd, st, ms, rnd, fmh) ==
  [tiles |-> t, score |-> sc, isGameOver |-> go, isWon |-> won, seed |-> sd,
   startTime |-> st, moves |-> ms, randomness |-> rnd, finalMovesHash |-> fmh]

\* Kept beside a snapshot and never read by the program: the generator and
\* the moves in flight of the live session when the snapshot was written.
LiveNote(h, p, n) ==
  [prng |-> IF p = 0 THEN 0 ELSE h[p], inFlight |-> n]

saveDeps == <<tiles, score, isGameOver, isWon, isInitializing, seed, startTime,
              moves, randomness, finalMovesHash, activeSeason>>

\* The save effect, run after the render a step causes.
SaveEffect ==
  storage' =
    IF /\ saveDeps' # saveDeps
       /\ ~seasonTransitionRef'
       /\ activeSeason' # NoSeason
       /\ ~isInitializing' /\ Len(tiles') > 0 /\ seed' # <<>>
    THEN [storage EXCEPT ![activeSeason'] =
            <<Snapshot(tiles', score', isGameOver', isWon', seed', startTime',
                       moves', randomness', finalMovesHash'),
              LiveNote(heap', prng', inFlight')>>]
    ELSE storage

NoProbe == [call |-> "none"]

\* useState / useRef initial values; the page has been loaded and the
\* season effect has not run yet.
Mounted ==
  /\ tiles = <<>> /\ score = 0 /\ isGameOver = FALSE /\ isWon = FALSE
  /\ isMoving = FALSE /\ moves = <<>> /\ finalMovesHash = INITIAL_MOVES_HASH
  /\ prng = 0 /\ seed = <<>> /\ randomness = "" /\ startTime = 0
  /\ isInitializing = TRUE
  /\ tileIdCounterRef = 1 /\ moveTimeoutRef = 0 /\ gameIdRef = 0
  /\ newGameLoadingRef = FALSE /\ seasonTransitionRef = FALSE
  /\ heap = <<>>
  /\ hashing = {} /\ timers = {} /\ fetching = <<>> /\ inits = {}
  /\ transitionTimers = 0 /\ nextTimer = 1
  /\ activeSeason = NoSeason
  /\ inFlight = 0

\* localStorage is empty.  Its domain is the set of seasons the selector
\* offers in the run: only the default one here.
Init ==
  /\ Mounted
  /\ storage = [s \in {DefaultSeason} |-> <<>>]
  /\ last = "mount"
  /\ used = [moves |-> 0, events |-> 0]
  /\ probe = NoProbe


(***************************************************************************)
(* performMove                                                             *)
(***************************************************************************)
\* if (isGameOver || isMoving || !prng || !finalMovesHash) return;
\* finalMovesHash is a non-empty string in every state.
MoveIsBlocked == isGameOver \/ isMoving \/ prng = 0

\* A handler without the test of hasMoved.
MoveTakesEffectAlways(moveResult) == TRUE

\* if (hasMoved) { ... }
MoveTakesEffect(moveResult) == moveResult.hasMoved

\* what the call did, for `last'
MoveOutcome(moveResult) ==
  IF moveResult.hasMoved THEN "moveAccepted" ELSE "moveRejected"

\* The handler up to its await of sha256.
PerformMove(direction) ==
  IF MoveIsBlocked
  THEN /\ last' = "moveBlocked"
       /\ UNCHANGED <<gameVars, isInitializing, refVars, heap, taskVars,
                      activeSeason, storage, used>>
  ELSE LET moveResult == move(tiles, direction)
       IN  /\ last' = MoveOutcome(moveResult)
           /\ IF MoveTakesEffect(moveResult)
              THEN /\ used.moves < MaxMoves
                   /\ used' = Played
                   /\ isMoving' = TRUE
                   /\ inFlight' = inFlight + 1
                   /\ score' = score + moveResult.scoreIncrease
                   /\ tiles' = moveResult.newTiles \o moveResult.mergedTiles
                   /\ moves' = Append(moves, MoveCode(direction))
                   /\ hashing' = hashing \cup
                        {[gameIdAtMoveStart |-> gameIdRef,
                          newTiles          |-> moveResult.newTiles,
                          prng              |-> prng,
                          isWon             |-> isWon,
                          finalMovesHash    |-> finalMovesHash,
                          newMove           |-> MoveCode(direction)]}
                   /\ UNCHANGED <<isGameOver, isWon, finalMovesHash, prng, seed,
                                  randomness, startTime, isInitializing, refVars,
                                  heap, timers, fetching, inits,
                                  transitionTimers, nextTimer, activeSeason>>
                   /\ SaveEffect
              ELSE UNCHANGED <<gameVars, isInitializing, refVars, heap,
                               taskVars, activeSeason, storage, used>>

\* moveTimeoutRef.current = window.setTimeout(..., ANIMATION_DURATION)
ScheduleSpawn(h) ==
  /\ moveTimeoutRef' = nextTimer
  /\ nextTimer' = nextTimer + 1
  /\ timers' = timers \cup
       {[id |-> nextTimer, gameIdAtMoveStart |-> h.gameIdAtMoveStart,
         newTiles |-> h.newTiles, prng |-> h.prng, isWon |-> h.isWon]}
  /\ hashing' = hashing \ {h}

\* sha256 resolves: setFinalMovesHash(newHash), then the timer is set.
HashDone(h) ==
  /\ finalMovesHash' = sha256(h.finalMovesHash, h.newMove)
  /\ ScheduleSpawn(h)
  /\ last' = "hashDone"
  /\ UNCHANGED <<tiles, score, isGameOver, isWon, isMoving, moves, prng, seed,
                 randomness, startTime, isInitializing, tileIdCounterRef,
                 gameIdRef, newGameLoadingRef, seasonTransitionRef, heap,
                 fetching, inits, transitionTimers, activeSeason, used,
                 inFlight>>
  /\ SaveEffect

\* sha256 rejects: the catch logs, then the timer is set.
HashFail(h) ==
  /\ used.events < MaxEvents
  /\ used' = Disturbed
  /\ ScheduleSpawn(h)
  /\ last' = "hashFail"
  /\ UNCHANGED <<gameVars, isInitializing, tileIdCounterRef, gameIdRef,
                 newGameLoadingRef, seasonTransitionRef, heap, fetching, inits,
                 transitionTimers, activeSeason, storage>>

\* A timer callback without the test of the game id.
SpawnIsNeverStale(t) == FALSE

\* A timer callback that always returns at the test of the game id.
SpawnIsAlwaysStale(t) == TRUE

\* if (gameIdRef.current !== gameIdAtMoveStart) return;
SpawnIsStale(t) == gameIdRef # t.gameIdAtMoveStart

Has2048(ts) == \E i \in 1 .. Len(ts) : ts[i].value = 2048

\* The timer callback of performMove.
SpawnTimeout(t) ==
  /\ timers' = timers \ {t}
  /\ IF SpawnIsStale(t)
     THEN /\ last' = "spawnDiscarded"
          /\ UNCHANGED <<gameVars, isInitializing, refVars, heap, hashing,
                         fetching, inits, transitionTimers, nextTimer,
                         activeSeason, storage, used>>
     ELSE LET tilesAfterAnimation ==
                [i \in 1 .. Len(t.newTiles) |-> [t.newTiles[i] EXCEPT !.isMerged = FALSE]]
              r == addRandomTile(tilesAfterAnimation, heap[t.prng], tileIdCounterRef)
          IN  /\ heap' = [heap EXCEPT ![t.prng] = r.prng]
              /\ tileIdCounterRef' = r.newCounter
              /\ tiles' = r.newTiles
              /\ isMoving' = FALSE
              /\ inFlight' = IF inFlight > 0 THEN inFlight - 1 ELSE 0
              /\ isWon' = IF ~t.isWon /\ Has2048(r.newTiles) THEN TRUE ELSE isWon
              /\ isGameOver' = IF checkIsGameOver(r.newTiles) THEN TRUE ELSE isGameOver
              /\ last' = "spawn"
              /\ UNCHANGED <<score, moves, finalMovesHash, prng, seed, randomness,
                             startTime, isInitializing, moveTimeoutRef, gameIdRef,
                             newGameLoadingRef, seasonTransitionRef, hashing,
                             fetching, inits, transitionTimers, nextTimer,
                             activeSeason, used>>
              /\ SaveEffect

(***************************************************************************)
(* newGame                                                                 *)
(***************************************************************************)
\* newGame up to its await of fetch('/api/start-game'), when it is not
\* already loading; awaited tells whether initializeGameForSeason waits
\* for it.
NewGameBegin(awaited) ==
  /\ gameIdRef' = gameIdRef + 1
  /\ timers' = {t \in timers : t.id # moveTimeoutRef}
  /\ tiles' = <<>> /\ score' = 0 /\ isGameOver' = FALSE /\ isWon' = FALSE
  /\ moves' = <<>> /\ seed' = <<>> /\ prng' = 0 /\ randomness' = ""
  /\ finalMovesHash' = INITIAL_MOVES_HASH
  /\ newGameLoadingRef' = TRUE
  /\ isMoving' = TRUE
  /\ inFlight' = 0
  /\ fetching' = <<[awaited |-> awaited]>>
  /\ UNCHANGED <<tileIdCounterRef, moveTimeoutRef, seasonTransitionRef, heap,
                 hashing, nextTimer, activeSeason>>

\* A newGame without its first test.
NewGameIsNeverLoading == FALSE

\* if (newGameLoadingRef.current) return;
NewGameIsLoading == newGameLoadingRef

\* The new-game button (GameControls, GameOver), shown once the season is
\* initialised.  A press while a start is loading is not counted as a
\* disturbance.
NewGame ==
  /\ ~isInitializing /\ activeSeason # NoSeason
  /\ ~newGameLoadingRef => used.events < MaxEvents
  /\ used' = IF newGameLoadingRef THEN used ELSE Disturbed
  /\ IF NewGameIsLoading
     THEN /\ last' = "newGameIgnored"
          /\ UNCHANGED <<gameVars, isInitializing, refVars, heap, taskVars,
                         activeSeason, storage>>
     ELSE /\ NewGameBegin(FALSE)
          /\ last' = "newGame"
          /\ UNCHANGED <<startTime, isInitializing, inits, transitionTimers>>
          /\ SaveEffect

\* initializeGameForSeason after the newGame it awaited (or after loading a
\* snapshot): setIsInitializing(false); setTimeout(() => ref = false, 0)
InitEnds(ends) ==
  /\ isInitializing' = IF ends THEN FALSE ELSE isInitializing
  /\ transitionTimers' = IF ends THEN transitionTimers + 1 ELSE transitionTimers

\* The seed request is answered.
StartGame(response) ==
  /\ fetching # <<>>
  /\ fetching' = <<>>
  /\ ~Complete(response) => used.events < MaxEvents
  /\ used' = IF Complete(response) THEN used ELSE Disturbed
  /\ IF response.ok
     THEN LET newSeed == SeedDigest(response.randomness, response.startTime)
              g       == generateInitialTiles(SeededRandom(newSeed))
          IN  /\ heap' = Append(heap, g.prng)
              /\ prng' = Len(heap) + 1
              /\ tileIdCounterRef' = g.newCounter
              /\ randomness' = response.randomness
              /\ seed' = newSeed
              /\ startTime' = response.startTime
              /\ tiles' = g.initialTiles
              /\ last' = "started"
     ELSE /\ last' = "startFailed"
          /\ UNCHANGED <<heap, prng, tileIdCounterRef, randomness, seed,
                         startTime, tiles>>
  /\ isMoving' = FALSE
  /\ newGameLoadingRef' = FALSE
  /\ InitEnds(fetching[1].awaited)
  /\ UNCHANGED <<score, isGameOver, isWon, moves, finalMovesHash,
                 moveTimeoutRef, gameIdRef, seasonTransitionRef, hashing,
                 timers, inits, nextTimer, activeSeason, inFlight>>
  /\ SaveEffect


(***************************************************************************)
(* The season effect and initializeGameForSeason                           *)
(***************************************************************************)
\* The effect on [isAppReady, activeSeason], up to the first await of
\* initializeGameForSeason.  The first run after the page is loaded is for
\* the season the App starts with.
SelectSeason(s) ==
  /\ s \in DOMAIN storage
  /\ s # activeSeason
  /\ activeSeason = NoSeason => s = DefaultSeason
  /\ activeSeason # NoSeason => used.events < MaxEvents
  /\ used' = IF activeSeason = NoSeason THEN used ELSE Disturbed
  /\ activeSeason' = s
  /\ seasonTransitionRef' = TRUE
  /\ isInitializing' = TRUE
  /\ tiles' = <<>> /\ score' = 0 /\ isGameOver' = FALSE /\ isWon' = FALSE
  /\ inits' = inits \cup {[season |-> s, run |-> Cardinality(inits) + 1]}
  /\ last' = "seasonEffect"
  /\ UNCHANGED <<isMoving, moves, finalMovesHash, prng, seed, randomness,
                 startTime, tileIdCounterRef, moveTimeoutRef, gameIdRef,
                 newGameLoadingRef, heap, hashing, timers, fetching,
                 transitionTimers, nextTimer, inFlight>>
  /\ SaveEffect

\* JSON.parse(savedStateJSON) returns
Parsable(entry) == "tiles" \in DOMAIN entry[1]

\* if (savedState.randomness && savedState.finalMovesHash)
SnapshotIsUsable(savedState) ==
  savedState.randomness # "" /\ savedState.finalMovesHash # <<>>

\* new SeededRandom(savedState.seed) reads seed.length: a TypeError when the
\* seed is missing
GeneratorCanBeBuilt(savedState) == savedState.seed # <<>>

\* const prngCalls = 4 + (savedState.moves.length * 2)
prngCalls(savedState) == 4 + (Len(savedState.moves) * 2)

RECURSIVE AdvanceBy(_, _)
AdvanceBy(p, n) ==
  IF n = 0 THEN p
  ELSE LET q == Advance(p)   \* taken before the rest of the loop
       IN  IF q.calls > p.calls THEN AdvanceBy(q, n - 1) ELSE q

RECURSIVE MaxId(_)
MaxId(ts) ==
  IF ts = <<>> THEN 0
  ELSE LET m == MaxId(Tail(ts)) IN IF Head(ts).id > m THEN Head(ts).id ELSE m

\* initializeGameForSeason from the read of localStorage on.
InitLoad(i) ==
  /\ i \in inits
  /\ inits' = inits \ {i}
  /\ LET entry  == storage[i.season]
         tested == entry # <<>> /\ Parsable(entry) /\ SnapshotIsUsable(entry[1])
     IN
     IF tested /\ GeneratorCanBeBuilt(entry[1])
     THEN LET savedState == entry[1]
              loadedPrng == AdvanceBy(SeededRandom(savedState.seed), prngCalls(savedState))
          IN  /\ tiles' = savedState.tiles
              /\ score' = savedState.score
              /\ isGameOver' = savedState.isGameOver
              /\ isWon' = savedState.isWon
              /\ seed' = savedState.seed
              /\ startTime' = savedState.startTime
              /\ moves' = savedState.moves
              /\ randomness' = savedState.randomness
              /\ finalMovesHash' = savedState.finalMovesHash
              /\ heap' = Append(heap, loadedPrng)
              /\ prng' = Len(heap) + 1
              /\ tileIdCounterRef' = MaxId(savedState.tiles) + 1
              /\ inFlight' = entry[2].inFlight
              /\ InitEnds(TRUE)
              /\ last' = "loaded"
              /\ UNCHANGED <<isMoving, moveTimeoutRef, gameIdRef,
                             newGameLoadingRef, seasonTransitionRef, hashing,
                             timers, fetching, nextTimer, activeSeason, used>>
              /\ SaveEffect
     ELSE IF tested
     THEN \* the setters up to setFinalMovesHash have been called when the
          \* constructor throws; catch: removeItem; then await newGame()
          LET savedState == entry[1]
          IN  /\ storage' = [storage EXCEPT ![i.season] = <<>>]
              /\ startTime' = savedState.startTime
              /\ IF NewGameIsLoading
                 THEN /\ tiles' = savedState.tiles
                      /\ score' = savedState.score
                      /\ isGameOver' = savedState.isGameOver
                      /\ isWon' = savedState.isWon
                      /\ seed' = savedState.seed
                      /\ moves' = savedState.moves
                      /\ randomness' = savedState.randomness
                      /\ finalMovesHash' = savedState.finalMovesHash
                      /\ InitEnds(TRUE)
                      /\ last' = "loadFailed"
                      /\ UNCHANGED <<isMoving, prng, inFlight, refVars, heap,
                                     hashing, timers, fetching, nextTimer,
                                     activeSeason, used>>
                 ELSE /\ NewGameBegin(TRUE)
                      /\ last' = "newGame"
                      /\ UNCHANGED <<isInitializing, transitionTimers, used>>
     ELSE \* a snapshot that is not usable is removed; await newGame()
          IF NewGameIsLoading
          THEN /\ InitEnds(TRUE)
               /\ last' = "newGameIgnored"
               /\ storage' = [storage EXCEPT ![i.season] = <<>>]
               /\ UNCHANGED <<gameVars, refVars, heap, hashing, timers, fetching,
                              nextTimer, activeSeason, used>>
          ELSE /\ NewGameBegin(TRUE)
               /\ last' = "newGame"
               /\ storage' = [storage EXCEPT ![i.season] = <<>>]
               /\ UNCHANGED <<startTime, isInitializing, transitionTimers, used>>

\* setTimeout(() => { seasonTransitionRef.current = false; }, 0)
TransitionEnd ==
  /\ transitionTimers > 0
  /\ transitionTimers' = transitionTimers - 1
  /\ seasonTransitionRef' = FALSE
  /\ last' = "transitionEnd"
  /\ UNCHANGED <<gameVars, isInitializing, tileIdCounterRef, moveTimeoutRef,
                 gameIdRef, newGameLoadingRef, heap, hashing, timers, fetching,
                 inits, nextTimer, activeSeason, storage, used>>

\* The page is closed and opened again (or window.location.reload()):
\* every pending task is gone, localStorage stays.
Reload ==
  /\ used.events < MaxEvents
  /\ used' = Disturbed
  /\ tiles' = <<>> /\ score' = 0 /\ isGameOver' = FALSE /\ isWon' = FALSE
  /\ isMoving' = FALSE /\ moves' = <<>> /\ finalMovesHash' = INITIAL_MOVES_HASH
  /\ prng' = 0 /\ seed' = <<>> /\ randomness' = "" /\ startTime' = 0
  /\ isInitializing' = TRUE
  /\ tileIdCounterRef' = 1 /\ moveTimeoutRef' = 0 /\ gameIdRef' = 0
  /\ newGameLoadingRef' = FALSE /\ seasonTransitionRef' = FALSE
  /\ heap' = <<>>
  /\ hashing' = {} /\ timers' = {} /\ fetching' = <<>> /\ inits' = {}
  /\ transitionTimers' = 0 /\ nextTimer' = 1
  /\ activeSeason' = NoSeason
  /\ inFlight' = 0
  /\ last' = "mount"
  /\ UNCHANGED storage

Next ==
  \/ \E d \in Directions : PerformMove(d) /\ UNCHANGED probe
  \/ \E h \in hashing : HashDone(h) /\ UNCHANGED probe
  \/ \E h \in hashing : HashFail(h) /\ UNCHANGED probe
  \/ \E t \in timers : SpawnTimeout(t) /\ UNCHANGED probe
  \/ NewGame /\ UNCHANGED probe
  \/ \E response \in Responses : StartGame(response) /\ UNCHANGED probe
  \/ \E s \in Seasons : SelectSeason(s) /\ UNCHANGED probe
  \/ \E i \in inits : InitLoad(i) /\ UNCHANGED probe
  \/ TransitionEnd /\ UNCHANGED probe
  \/ Reload /\ UNCHANGED probe

Spec == Init /\ [][Next]_vars

(***************************************************************************)
(* Properties of the session                                               *)
(***************************************************************************)
\* the (row, col, value) of the tiles, and the same with their ids
Cells(ts) == {<<ts[i].row, ts[i].col, ts[i].value>> : i \in 1 .. Len(ts)}
Identities(ts) ==
  {<<ts[i].id, ts[i].row, ts[i].col, ts[i].value>> : i \in 1 .. Len(ts)}

\* The commitment of a move list: INITIAL_MOVES_HASH for the empty list,
\* then one sha256 per entry.
RECURSIVE HashOfMoves(_)
HashOfMoves(ms) ==
  IF ms = <<>> THEN INITIAL_MOVES_HASH
  ELSE sha256(HashOfMoves(SubSeq(ms, 1, Len(ms) - 1)), ms[Len(ms)])

\* The continuations of performMove that belong to the session in progress.
LiveTasks == {k \in hashing \cup timers : k.gameIdAtMoveStart = gameIdRef}

\* A session is in progress and shown.
SessionStarted == seed # <<>> /\ prng # 0 /\ ~isInitializing

\* Nothing of a move is still to come: no move is being animated and no
\* continuation of the session is waiting.
NoSpawnPending == ~isMoving /\ LiveTasks = {}

\* C1 (replay soundness): in every state of a started session where no spawn
\* is pending, verifyGame(seed, moves) returns the live score and tiles
\* with the live value at every (row, col).
C1_ReplaySound ==
  (SessionStarted /\ NoSpawnPending) =>
     LET replay == verifyGame(seed, moves)
     IN  /\ replay.finalScore = score
         /\ Cells(replay.finalTiles) = Cells(tiles)

\* C2 (determinism): the tiles (ids included), the score and the commitment
\* of a settled session are those that the seed and the move list alone
\* determine; nothing else that happened to the session shows in them.
C2_Deterministic ==
  (SessionStarted /\ NoSpawnPending) =>
     LET run == verifyGame(seed, moves)
     IN  /\ Identities(tiles) = Identities(run.finalTiles)
         /\ score = run.finalScore
         /\ finalMovesHash = HashOfMoves(moves)

\* C3 (commitment chain): in every state where no hash update is in flight,
\* finalMovesHash is the fold of sha256 over the recorded moves, from
\* INITIAL_MOVES_HASH.
C3_CommitmentChain ==
  hashing = {} => finalMovesHash = HashOfMoves(moves)

\* C4 (rejected move changes nothing): a step of performMove whose move
\* displaces no tile leaves tiles, score, moves, finalMovesHash, the
\* generators, the tile-id counter, isMoving and isGameOver as they were,
\* schedules nothing and saves nothing.
C4_RejectedMoveChangesNothing ==
  [][last' = "moveRejected" =>
       UNCHANGED <<tiles, score, moves, finalMovesHash, prng, heap,
                   tileIdCounterRef, isMoving, isGameOver, isWon, hashing,
                   timers, moveTimeoutRef, nextTimer, storage>>]_vars

\* a move was rejected by a session in progress
C4_Witness == last = "moveRejected" /\ SessionStarted /\ Len(tiles) > 0

\* C5 (cancellation on new game): the timer callback of a move accepted
\* before the newGame in progress (or finished) changes neither tiles, the
\* tile-id counter, isMoving, isWon, isGameOver nor any generator.
C5_StaleSpawnDiscarded ==
  [][(/\ last' \in {"spawn", "spawnDiscarded"}
      /\ \E t \in timers \ timers' : t.gameIdAtMoveStart # gameIdRef) =>
       UNCHANGED <<tiles, tileIdCounterRef, isMoving, isWon, isGameOver,
                   heap, prng>>]_vars

\* the timer of a move of the session before has fired in the new session,
\* which has started and still shows its two first tiles
C5_Witness ==
  /\ last = "spawnDiscarded" /\ SessionStarted
  /\ moves = <<>> /\ Len(tiles) = 2 /\ ~isMoving

\* C6 (at most one move in flight): a session never has two accepted moves
\* whose spawn has not been applied, that is, no move is accepted between
\* the acceptance of a move and the application of its spawn.
C6_OneMoveInFlight == inFlight <= 1

\* C7 (reload fast-forward): the generator built when a snapshot is loaded
\* is the generator the live session had when the snapshot was written:
\* same state, same number of draws.
C7_ReloadFastForward ==
  (last = "loaded" /\ storage[activeSeason] # <<>>) =>
     heap[prng] = storage[activeSeason][2].prng

MaxExp   == 3    \* a row holds values up to 2^MaxExp
MaxTiles == 3    \* a board holds at most MaxTiles tiles

RECURSIVE PowerOfTwo(_)
PowerOfTwo(k) == IF k = 0 THEN 1 ELSE 2 * PowerOfTwo(k - 1)

RowValues   == {0} \cup {PowerOfTwo(k) : k \in 1 .. MaxExp}
RowInputs   == [1 .. GRID_SIZE -> RowValues]
BoardValues == {2, 4}
AllCells    == Idx \X Idx
BoardInputs ==
  UNION {[S -> BoardValues] :
           S \in {S \in SUBSET AllCells : Cardinality(S) <= MaxTiles}}

\* the row slideAndMergeRow is given: tile c + 1 at column c, 0 is null
RowOfValues(vals) ==
  [c \in Idx |-> IF vals[c + 1] = 0 THEN <<>>
                 ELSE <<Tile(c + 1, vals[c + 1], 0, c, FALSE)>>]

\* the tile list of a board, in row-major order
RECURSIVE TilesOfBoard(_, _, _)
TilesOfBoard(b, k, nextId) ==
  IF k = GRID_SIZE * GRID_SIZE THEN <<>>
  ELSE LET cell == <<k \div GRID_SIZE, k % GRID_SIZE>>
       IN  IF cell \in DOMAIN b
           THEN <<Tile(nextId, b[cell], cell[1], cell[2], FALSE)>>
                \o TilesOfBoard(b, k + 1, nextId + 1)
           ELSE TilesOfBoard(b, k + 1, nextId)

EngineProbes ==
  {[call |-> "slideAndMergeRow", row |-> vals, done |-> FALSE] : vals \in RowInputs}
  \cup
  {[call |-> "move", board |-> b, done |-> FALSE] : b \in BoardInputs}

EngineInit ==
  /\ Mounted
  /\ storage = [s \in {DefaultSeason} |-> <<>>]
  /\ last = "mount"
  /\ used = [moves |-> 0, events |-> 0]
  /\ probe \in EngineProbes

sessionVars == <<gameVars, isInitializing, refVars, heap, taskVars,
                 activeSeason, storage, last, used>>

SlideRow ==
  /\ probe.call = "slideAndMergeRow" /\ ~probe.done
  /\ probe' = [call |-> "slideAndMergeRow", row |-> probe.row, done |-> TRUE,
               result |-> slideAndMergeRow(RowOfValues(probe.row))]
  /\ UNCHANGED sessionVars

MoveBoard(direction) ==
  /\ probe.call = "move" /\ ~probe.done
  /\ probe' = [call |-> "move", board |-> probe.board, done |-> TRUE,
               direction |-> direction,
               result |-> move(TilesOfBoard(probe.board, 0, 1), direction)]
  /\ UNCHANGED sessionVars

EngineNext ==
  \/ SlideRow
  \/ \E d \in Directions : MoveBoard(d)

SpecEngine == EngineInit /\ [][EngineNext]_vars

\* What the rules of the game ask of one line, read from the edge the tiles
\* slide to: the zeros go, then equal neighbours are paired from the edge,
\* each value taking part in one pair at most.
RECURSIVE PairFromEdge(_)
PairFromEdge(vals) ==
  IF Len(vals) < 2 THEN [line |-> vals, gain |-> 0]
  ELSE IF vals[1] = vals[2]
       THEN LET rest == PairFromEdge(SubSeq(vals, 3, Len(vals)))
            IN  [line |-> <<2 * vals[1]>> \o rest.line,
                 gain |-> 2 * vals[1] + rest.gain]
       ELSE LET rest == PairFromEdge(Tail(vals))
            IN  [line |-> <<vals[1]>> \o rest.line, gain |-> rest.gain]

NonZero(v) == v # 0
SlidLine(vals) ==
  LET paired == PairFromEdge(SelectSeq(vals, NonZero))
  IN  [line |-> [k \in 1 .. GRID_SIZE |->
                   IF k <= Len(paired.line) THEN paired.line[k] ELSE 0],
       gain |-> paired.gain]

RowValuesOf(row) ==
  [k \in 1 .. GRID_SIZE |-> IF row[k - 1] = <<>> THEN 0 ELSE row[k - 1][1].value]

\* C9 (merge at most once per move): slideAndMergeRow pairs equal
\* neighbours from the left once, a merged tile never merging again:
\* [2,2,2,2] gives [4,4,_,_] and 8, [2,2,4,_] and [4,2,2,_] give
\* [4,4,_,_]; the score gained is the sum of the merged values and there
\* is one loser per merge.
C9_MergeOnce ==
  (probe.call = "slideAndMergeRow" /\ probe.done) =>
     LET out  == RowValuesOf(probe.result.newRow)
         want == SlidLine(probe.row)
     IN  /\ out = want.line
         /\ probe.result.scoreIncrease = want.gain
         /\ Len(probe.result.mergedTiles) =
              Cardinality({c \in Idx : /\ probe.result.newRow[c] # <<>>
                                       /\ probe.result.newRow[c][1].isMerged})
         /\ probe.row = <<2, 2, 2, 2>> =>
              out = <<4, 4, 0, 0>> /\ probe.result.scoreIncrease = 8
         /\ probe.row = <<2, 2, 4, 0>> => out = <<4, 4, 0, 0>>
         /\ probe.row = <<4, 2, 2, 0>> => out = <<4, 4, 0, 0>>

\* the row of four 2s has been slid
C9_Witness ==
  /\ probe.call = "slideAndMergeRow" /\ probe.done
  /\ probe.row = <<2, 2, 2, 2>>
  /\ RowValuesOf(probe.result.newRow) = <<4, 4, 0, 0>>

\* the values of a board and its line n read from the edge of a direction
BoardLayout(b) ==
  [r \in Idx |-> [c \in Idx |-> IF <<r, c>> \in DOMAIN b THEN b[<<r, c>>] ELSE 0]]
LineFromEdge(layout, direction, n) ==
  [k \in 1 .. GRID_SIZE |->
     CASE direction = "left"  -> layout[n][k - 1]
       [] direction = "right" -> layout[n][GRID_SIZE - k]
       [] direction = "up"    -> layout[k - 1][n]
       [] direction = "down"  -> layout[GRID_SIZE - k][n]]
SlidLayout(layout, direction) ==
  [r \in Idx |-> [c \in Idx |->
     CASE direction = "left"  -> SlidLine(LineFromEdge(layout, direction, r)).line[c + 1]
       [] direction = "right" -> SlidLine(LineFromEdge(layout, direction, r)).line[GRID_SIZE - c]
       [] direction = "up"    -> SlidLine(LineFromEdge(layout, direction, c)).line[r + 1]
       [] direction = "down"  -> SlidLine(LineFromEdge(layout, direction, c)).line[GRID_SIZE - r]]]
SlidGain(layout, direction) ==
  SumAll([n \in Idx |-> SlidLine(LineFromEdge(layout, direction, n)).gain], 0)

\* C10 (direction handling): move rotates the grid 3 times for up, 2 for
\* right, 1 for down and 0 for left, slides every row to the left and
\* rotates back by (4 - k) % 4, which restores the orientation; so the
\* tiles slide to the named edge and pairs merge from that edge.
C10_DirectionHandling ==
  (probe.call = "move" /\ probe.done) =>
     LET layout == BoardLayout(probe.board)
         d      == probe.direction
         k      == Rotations(d)
         grid   == PlaceTiles([r \in Idx |-> [c \in Idx |-> <<>>]],
                              TilesOfBoard(probe.board, 0, 1))
     IN  /\ k = CASE d = "up" -> 3 [] d = "right" -> 2 [] d = "down" -> 1
                   [] d = "left" -> 0
         /\ rotateTimes(rotateTimes(grid, k), (4 - k) % 4) = grid
         /\ tilesToGrid(probe.result.newTiles) = SlidLayout(layout, d)
         /\ probe.result.scoreIncrease = SlidGain(layout, d)
         /\ probe.result.hasMoved = (SlidLayout(layout, d) # layout)

\* three equal tiles of a column have been moved down: the lower two merge
C10_Witness ==
  /\ probe.call = "move" /\ probe.done /\ probe.direction = "down"
  /\ DOMAIN probe.board = {<<0, 1>>, <<1, 1>>, <<3, 1>>}
  /\ \A cell \in DOMAIN probe.board : probe.board[cell] = 2
  /\ Cells(probe.result.newTiles) = {<<3, 1, 4>>, <<2, 1, 2>>}

(***************************************************************************)
(* isGameOver on its own: on the board of alternating 2s and 4s with at    *)
(* most MaxChanged cells replaced by an empty cell, a 2, a 4 or an 8.      *)
(***************************************************************************)
MaxChanged == 2    \* cells of the alternating board that are replaced

Checkerboard ==
  [r \in Idx |-> [c \in Idx |-> IF (r + c) % 2 = 0 THEN 2 ELSE 4]]
ChangeValues == {0, 2, 4, 8}
Changed(f) ==
  [r \in Idx |-> [c \in Idx |->
     IF <<r, c>> \in DOMAIN f THEN f[<<r, c>>] ELSE Checkerboard[r][c]]]
TerminalInputs ==
  UNION {{Changed(f) : f \in [S -> ChangeValues]} :
           S \in {S \in SUBSET AllCells : Cardinality(S) <= MaxChanged}}

\* the tiles of a layout of values, in row-major order
BoardOfLayout(layout) ==
  [cell \in {cell \in AllCells : layout[cell[1]][cell[2]] # 0} |->
     layout[cell[1]][cell[2]]]
TilesOfLayout(layout) == TilesOfBoard(BoardOfLayout(layout), 0, 1)

TerminalInit ==
  /\ Mounted
  /\ storage = [s \in {DefaultSeason} |-> <<>>]
  /\ last = "mount"
  /\ used = [moves |-> 0, events |-> 0]
  /\ probe \in {[call |-> "isGameOver", layout |-> l, done |-> FALSE] :
                  l \in TerminalInputs}

IsGameOverCall ==
  /\ probe.call = "isGameOver" /\ ~probe.done
  /\ probe' = [call |-> "isGameOver", layout |-> probe.layout, done |-> TRUE,
               result |-> checkIsGameOver(TilesOfLayout(probe.layout))]
  /\ UNCHANGED sessionVars

TerminalNext == IsGameOverCall

SpecTerminal == TerminalInit /\ [][TerminalNext]_vars

\* the cells next to a cell, on every side
Neighbours(cell) ==
  {n \in AllCells :
     \/ n[1] = cell[1] /\ (n[2] = cell[2] + 1 \/ n[2] = cell[2] - 1)
     \/ n[2] = cell[2] /\ (n[1] = cell[1] + 1 \/ n[1] = cell[1] - 1)}
IsFull(layout) == \A cell \in AllCells : layout[cell[1]][cell[2]] # 0
HasEqualNeighbours(layout) ==
  \E cell \in AllCells : \E n \in Neighbours(cell) :
     /\ layout[cell[1]][cell[2]] # 0
     /\ layout[cell[1]][cell[2]] = layout[n[1]][n[2]]

\* C11 (terminal detection): isGameOver(tiles) is true exactly when the 16
\* cells are occupied and no cell has an orthogonal neighbour of its value;
\* the alternating board is terminal, the same board with one cell made
\* equal to a neighbour is not, nor is a board with an empty cell.
C11_TerminalDetection ==
  (probe.call = "isGameOver" /\ probe.done) =>
     /\ probe.result = (IsFull(probe.layout) /\ ~HasEqualNeighbours(probe.layout))
     /\ probe.layout = Checkerboard => probe.result
     /\ probe.layout = [Checkerboard EXCEPT ![1][2] = 2] => ~probe.result
     /\ ~IsFull(probe.layout) => ~probe.result

\* the full board whose only equal neighbours are one above the other has
\* been found not terminal
C11_Witness ==
  /\ probe.call = "isGameOver" /\ probe.done
  /\ probe.layout = [Checkerboard EXCEPT ![1][2] = 8, ![2][2] = 8]
  /\ ~probe.result

(***************************************************************************)
(* addRandomTile on its own: on the alternating board with at most         *)
(* MaxHoles cells emptied and on the boards whose first cells are empty,   *)
(* with the generators of three seeds after at most MaxDraws draws; and    *)
(* the choice of cell and value on draws at the edges of their ranges.     *)
(***************************************************************************)
MaxHoles == 2    \* cells of the alternating board that are emptied
MaxDraws == 3    \* draws a generator has made before the call

Emptied(S) ==
  [r \in Idx |-> [c \in Idx |-> IF <<r, c>> \in S THEN 0 ELSE Checkerboard[r][c]]]
SpawnLayouts ==
  {Emptied(S) : S \in {S \in SUBSET AllCells : Cardinality(S) <= MaxHoles}}
  \cup
  {Emptied({cell \in AllCells : GRID_SIZE * cell[1] + cell[2] < j}) :
     j \in 0 .. GRID_SIZE * GRID_SIZE}

SpawnSeeds ==
  {<<>>, <<48, 102, 51, 101, 57, 97, 55, 99>>, <<97, 49, 98, 50, 99, 51, 100, 52>>}
SpawnGenerators ==
  {AdvanceBy(SeededRandom(s), n) : s \in SpawnSeeds, n \in 0 .. MaxDraws}

\* draws times 2^32: 0, 1, 2^28, 2^31, the last below 0.9, the first not
\* below 0.9, 2^32 - 1
EdgeDraws ==
  {U32(0, 0), U32(0, 1), U32(4096, 0), U32(32768, 0), U32(58982, 26214),
   U32(58982, 26215), U32(65535, 65535)}

SpawnProbes ==
  {[call |-> "addRandomTile", layout |-> l, prng |-> g, done |-> FALSE] :
     l \in SpawnLayouts, g \in SpawnGenerators}
  \cup
  {[call |-> "draw", k |-> k, n |-> n, done |-> FALSE] :
     k \in EdgeDraws, n \in 1 .. GRID_SIZE * GRID_SIZE}

SpawnInit ==
  /\ Mounted
  /\ storage = [s \in {DefaultSeason} |-> <<>>]
  /\ last = "mount"
  /\ used = [moves |-> 0, events |-> 0]
  /\ probe \in SpawnProbes

AddRandomTileCall ==
  /\ probe.call = "addRandomTile" /\ ~probe.done
  /\ probe' = [call |-> "addRandomTile", layout |-> probe.layout,
               prng |-> probe.prng, done |-> TRUE,
               result |-> addRandomTile(TilesOfLayout(probe.layout), probe.prng,
                                        Len(TilesOfLayout(probe.layout)) + 1)]
  /\ UNCHANGED sessionVars

\* the two uses of a draw in addRandomTile, on a list of n empty cells
DrawCall ==
  /\ probe.call = "draw" /\ ~probe.done
  /\ probe' = [call |-> "draw", k |-> probe.k, n |-> probe.n, done |-> TRUE,
               cell  |-> ChosenCell([i \in 1 .. probe.n |-> i - 1], probe.k),
               value |-> ChosenValue(probe.k)]
  /\ UNCHANGED sessionVars

SpawnNext ==
  \/ AddRandomTileCall
  \/ DrawCall

SpecSpawn == SpawnInit /\ [][SpawnNext]_vars

\* the cells of a layout in row-major order, and the empty ones among them
RowMajor == [k \in 1 .. GRID_SIZE * GRID_SIZE |->
               <<(k - 1) \div GRID_SIZE, (k - 1) % GRID_SIZE>>]
RECURSIVE EmptyAmong(_, _)
EmptyAmong(layout, cells) ==
  IF cells = <<>> THEN <<>>
  ELSE (IF layout[Head(cells)[1]][Head(cells)[2]] = 0 THEN <<Head(cells)>> ELSE <<>>)
       \o EmptyAmong(layout, Tail(cells))

\* i = floor(k * n / 2^32), said without a division by 2^32:
\* i * 2^32 <= k * n < (i + 1) * 2^32, in units of 2^16
IsFloorTimes(i, k, n) ==
  LET units == k.hi * n + ((k.lo * n) \div Limb)
  IN  i * Limb <= units /\ units < (i + 1) * Limb

\* k / 2^32 < 0.9: k is at most 3865470566 = 58982 * 2^16 + 26214
IsBelowNineTenths(k) == k.hi < 58982 \/ (k.hi = 58982 /\ k.lo <= 26214)

\* C12 (spawn rule): a spawn places the new tile in the empty cell, in
\* row-major order, of index floor(r1 * n), an index within 0 .. n - 1 and
\* so never an occupied cell; the value is 2 when the second draw is below
\* 0.9 and 4 otherwise; a board without an empty cell gets no tile and no
\* draw is made.
C12_SpawnRule ==
  /\ (probe.call = "addRandomTile" /\ probe.done) =>
       LET old     == TilesOfLayout(probe.layout)
           empties == EmptyAmong(probe.layout, RowMajor)
           n       == Len(empties)
           res     == probe.result
           k1      == Returned(Advance(probe.prng))
           k2      == Returned(Advance(Advance(probe.prng)))
       IN  IF n = 0
           THEN res.newTiles = old /\ res.prng = probe.prng
           ELSE /\ Len(res.newTiles) = Len(old) + 1
                /\ SubSeq(res.newTiles, 1, Len(old)) = old
                /\ res.prng = Advance(Advance(probe.prng))
                /\ res.newCounter = Len(old) + 2
                /\ LET new == res.newTiles[Len(old) + 1]
                   IN  /\ new.id = Len(old) + 1
                       /\ \E i \in 0 .. n - 1 :
                            /\ IsFloorTimes(i, k1, n)
                            /\ <<new.row, new.col>> = empties[i + 1]
                       /\ probe.layout[new.row][new.col] = 0
                       /\ new.value = IF IsBelowNineTenths(k2) THEN 2 ELSE 4
  /\ (probe.call = "draw" /\ probe.done) =>
       /\ probe.cell \in 0 .. probe.n - 1
       /\ IsFloorTimes(probe.cell, probe.k, probe.n)
       /\ probe.value = IF IsBelowNineTenths(probe.k) THEN 2 ELSE 4
       /\ probe.k = U32(0, 0) => probe.cell = 0 /\ probe.value = 2
       /\ probe.k = U32(65535, 65535) => probe.cell = probe.n - 1 /\ probe.value = 4
       /\ probe.k = U32(32768, 0) => probe.cell = probe.n \div 2
       /\ probe.k = U32(58982, 26214) => probe.value = 2
       /\ probe.k = U32(58982, 26215) => probe.value = 4

\* a tile has been spawned on a board with several empty cells, not in the
\* first of them
C12_Witness ==
  /\ probe.call = "addRandomTile" /\ probe.done
  /\ Len(EmptyAmong(probe.layout, RowMajor)) > 2
  /\ LET new == probe.result.newTiles[Len(probe.result.newTiles)]
     IN  /\ new.isNew
         /\ <<new.row, new.col>> # EmptyAmong(probe.layout, RowMajor)[1]

(***************************************************************************)
(* Further properties of the session                                       *)
(***************************************************************************)
TileValues == {PowerOfTwo(k) : k \in 1 .. 17}

\* C13 (board invariant): in a started session with no spawn pending, no
\* two tiles share a (row, col), every row and column is within 0 .. 3 and
\* every value is a power of two, 2 at least.
C13_BoardInvariant ==
  (SessionStarted /\ NoSpawnPending) =>
     /\ \A i, j \in 1 .. Len(tiles) :
          i # j => <<tiles[i].row, tiles[i].col>> # <<tiles[j].row, tiles[j].col>>
     /\ \A i \in 1 .. Len(tiles) :
          /\ tiles[i].row \in Idx /\ tiles[i].col \in Idx
          /\ tiles[i].value \in TileValues

\* C14 (session start): when newGame has succeeded the session has score 0,
\* no moves, the genesis commitment, a generator of its own built from the
\* seed derived from the answer and used for the two first tiles only, and
\* two tiles on two cells, of value 2 or 4, with ids 1 and 2.
C14_SessionStart ==
  last = "started" =>
     /\ score = 0 /\ moves = <<>>
     /\ finalMovesHash = INITIAL_MOVES_HASH
     /\ seed = SeedDigest(randomness, startTime)
     /\ prng = Len(heap)
     /\ heap[prng] = generateInitialTiles(SeededRandom(seed)).prng
     /\ Len(tiles) = 2
     /\ <<tiles[1].row, tiles[1].col>> # <<tiles[2].row, tiles[2].col>>
     /\ tiles[1].value \in {2, 4} /\ tiles[2].value \in {2, 4}
     /\ tiles[1].id = 1 /\ tiles[2].id = 2
     /\ tileIdCounterRef = 3


(***************************************************************************)
(* The end of a game.  The page is opened on the snapshot the session of   *)
(* seed "0f3e9a7c" leaves in localStorage after the eighteen moves below,  *)
(* every spawn applied: fourteen tiles, score 24, two moves (down, up)     *)
(* away from a board without a move.                                       *)
(***************************************************************************)
EndgameMoves == <<3, 1, 1, 0, 0, 2, 2, 2, 0, 2, 0, 2, 1, 3, 1, 3, 1, 0>>

EndgameTiles ==
  <<Tile(11, 4, 0, 0, FALSE), Tile(19, 4, 0, 1, FALSE), Tile(17, 2, 0, 2, FALSE),
    Tile(16, 4, 0, 3, FALSE), Tile(15, 2, 1, 1, FALSE), Tile(1, 4, 1, 2, FALSE),
    Tile(18, 2, 1, 3, FALSE), Tile(7, 4, 2, 1, FALSE),  Tile(12, 2, 2, 2, FALSE),
    Tile(3, 4, 2, 3, FALSE),  Tile(13, 2, 3, 1, FALSE), Tile(4, 4, 3, 2, FALSE),
    Tile(6, 2, 3, 3, FALSE),  Tile(20, 2, 2, 0, TRUE)>>

EndgameSnapshot ==
  Snapshot(EndgameTiles, 24, FALSE, FALSE, SeedDigest("r1", 1001), 1001,
           EndgameMoves, "r1", HashOfMoves(EndgameMoves))

EndgameInit ==
  /\ Mounted
  /\ storage = [s \in {DefaultSeason} |->
                  <<EndgameSnapshot,
                    [prng |-> AdvanceBy(SeededRandom(EndgameSnapshot.seed),
                                        prngCalls(EndgameSnapshot)),
                     inFlight |-> 0]>>]
  /\ last = "mount"
  /\ used = [moves |-> 0, events |-> 0]
  /\ probe = NoProbe

SpecEndgame == EndgameInit /\ [][Next]_vars

\* the task of the step was a call of performMove
MoveCalled == last' \in {"moveBlocked", "moveAccepted", "moveRejected"}

\* C15 (terminal session): after a spawn that leaves the 16 cells occupied
\* with no two equal neighbours isGameOver is true; a performMove called
\* while isGameOver is true changes neither tiles, score, moves nor
\* finalMovesHash (nor isMoving, the generators or the pending tasks); and
\* isGameOver stays true until newGame or until the page is left.
C15_TerminalSession ==
  /\ [](last = "spawn" /\ IsFull(tilesToGrid(tiles))
                       /\ ~HasEqualNeighbours(tilesToGrid(tiles))
          => isGameOver)
  /\ [][(isGameOver /\ MoveCalled) =>
          UNCHANGED <<tiles, score, moves, finalMovesHash, isMoving, isGameOver,
                      prng, heap, tileIdCounterRef, hashing, timers, storage>>]_vars
  /\ [][(isGameOver /\ ~isGameOver') =>
          last' \in {"newGame", "mount", "seasonEffect"}]_vars

\* the game has ended on a full board and a move has been tried since
C15_Witness ==
  /\ isGameOver /\ last = "moveBlocked" /\ SessionStarted
  /\ Len(tiles) = 16 /\ Len(moves) = Len(EndgameMoves) + 2


(***************************************************************************)
(* SeededRandom on its own: a generator is built from a seed string and    *)
(* next() is called on it.  The seeds are the strings of '0' and 'f' up to *)
(* MaxSeedLen characters and five strings whose folded hash is -1, -609,   *)
(* -610 (around the largest magnitude for which a * seed + c is not        *)
(* negative), -2^31 and 2^31 - 1.                                          *)
(***************************************************************************)
MaxSeedLen == 8    \* length of the enumerated seeds
MaxNext    == 4    \* calls of next() on one generator

SeedChars == {48, 102}

RECURSIVE SeedsOfLength(_)
SeedsOfLength(n) ==
  IF n = 0 THEN {<<>>}
  ELSE {Append(s, ch) : s \in SeedsOfLength(n - 1), ch \in SeedChars}

EdgeSeeds ==
  {<<100, 102, 50, 51, 99, 56, 98, 105>>,    \* "df23c8bi": -1
   <<100, 102, 50, 51, 99, 57, 49, 55>>,     \* "df23c917": -609
   <<100, 102, 50, 51, 99, 57, 49, 54>>,     \* "df23c916": -610
   <<102, 52, 53, 54, 56, 53, 97, 85>>,      \* "f45685aU": -2^31
   <<102, 52, 53, 54, 56, 53, 97, 84>>}      \* "f45685aT": 2^31 - 1

RandomSeeds == UNION {SeedsOfLength(n) : n \in 0 .. MaxSeedLen} \cup EdgeSeeds

RandomInit ==
  /\ Mounted
  /\ storage = [s \in {DefaultSeason} |-> <<>>]
  /\ last = "mount"
  /\ used = [moves |-> 0, events |-> 0]
  /\ \E s \in RandomSeeds :
       probe = [call |-> "next", seed |-> s, p |-> SeededRandom(s),
                done |-> FALSE, result |-> U32(0, 0)]

\* prng.next()
NextCall ==
  /\ probe.call = "next"
  /\ probe.p.calls < MaxNext
  /\ probe' = [probe EXCEPT !.p = Advance(probe.p), !.done = TRUE,
                            !.result = Returned(Advance(probe.p))]
  /\ UNCHANGED sessionVars

RandomNext == NextCall

SpecRandom == RandomInit /\ [][RandomNext]_vars

IsU32(x) == x.hi \in 0 .. Limb - 1 /\ x.lo \in 0 .. Limb - 1

\* C16 (PRNG range): the value next() returns is k / 2^32 for an integer k
\* with 0 <= k < 2^32, hence at least 0 and below 1: k is the state just
\* stored when that state is not negative, and 2^32 minus its magnitude
\* (a magnitude between 1 and 2^32 - 1) when it is negative.
C16_RandomRange ==
  (probe.call = "next" /\ probe.done) =>
     /\ IsU32(probe.result)
     /\ IsU32(probe.p.mag)
     /\ ~probe.p.neg => probe.result = probe.p.mag
     /\ probe.p.neg =>
          /\ ~IsZeroU32(probe.p.mag)
          /\ ~IsZeroU32(probe.result)
          /\ AddU32(probe.result, probe.p.mag) = U32(0, 0)

\* a seed with a negative folded hash has left a negative state twice
C16_Witness ==
  /\ probe.call = "next" /\ probe.done
  /\ SeededRandom(probe.seed).neg
  /\ probe.p.neg /\ probe.p.calls >= 2

\* acc + k * x mod 2^32, by doubling x for every binary digit of k
RECURSIVE TimesU32(_, _, _)
TimesU32(k, x, acc) ==
  IF k = 0 THEN acc
  ELSE LET sum     == IF k % 2 = 1 THEN AddU32(acc, x) ELSE acc
           doubled == AddU32(x, x)
       IN  IF IsU32(sum) /\ IsU32(doubled)
           THEN TimesU32(k \div 2, doubled, sum)
           ELSE sum

\* the residue mod 2^32 of state = 1664525 * state + 1013904223 after n
\* steps from the residue u
RECURSIVE ResidueAfter(_, _)
ResidueAfter(u, n) ==
  IF n = 0 THEN u
  ELSE LET v == TimesU32(LcgA, u, U32(LcgC \div Limb, LcgC % Limb))
       IN  IF IsU32(v) THEN ResidueAfter(v, n - 1) ELSE v

\* C17 (PRNG sequence): the n-th value next() returns, times 2^32, is the
\* non-negative residue mod 2^32 of the n-th term of the integer recurrence
\* state = 1664525 * state + 1013904223 started from the folded hash of the
\* seed, whatever the sign of the stored state; the stored magnitude is
\* below 2^32 and the multiplier below 2^21, so a product stays below 2^53.
C17_RandomSequence ==
  (probe.call = "next" /\ probe.done) =>
     /\ probe.result =
          ResidueAfter(FoldSeed(U32(0, 0), probe.seed), probe.p.calls)
     /\ IsU32(probe.p.mag)
     /\ LcgA < PowerOfTwo(21) /\ LcgC < PowerOfTwo(30)
     /\ LcgA = LcgAHi * Limb + LcgALo /\ LcgC = LcgCHi * Limb + LcgCLo

\* the seed folded to -609: 1013904223 - 1664525 * 609 = 208498 is stored
\* and returned
C17_Witness ==
  /\ probe.call = "next" /\ probe.done
  /\ probe.seed = <<100, 102, 50, 51, 99, 57, 49, 55>>
  /\ SeededRandom(probe.seed) = [neg |-> TRUE, mag |-> U32(0, 609), calls |-> 0]
  /\ probe.p.calls = 1 /\ ~probe.p.neg
  /\ probe.result = U32(3, 11890)


(***************************************************************************)
(* packBoard and packMoves (gridUtils.ts).  A BigInt is the set of the     *)
(* positions of its one bits, so that no width is assumed for it; the      *)
(* string a function returns is the sequence of its characters.            *)
(***************************************************************************)
MaxPacked == 2    \* tiles of the sparse boards given to packBoard
MaxLog    == 4    \* length of the move logs given to packMoves

\* BigInt(n) for 0 <= n < 2^18
BigInt(n) == {i \in 0 .. 17 : (n \div PowerOfTwo(i)) % 2 = 1}
ShiftLeft(bits, k) == {i + k : i \in bits}

HexChars == <<"0", "1", "2", "3", "4", "5", "6", "7",
              "8", "9", "a", "b", "c", "d", "e", "f">>

\* the hexadecimal digit of weight 16^j
DigitAt(bits, j) ==
    (IF 4 * j     \in bits THEN 1 ELSE 0) + (IF 4 * j + 1 \in bits THEN 2 ELSE 0)
  + (IF 4 * j + 2 \in bits THEN 4 ELSE 0) + (IF 4 * j + 3 \in bits THEN 8 ELSE 0)

\* packed.toString(16): no leading zero, "0" for zero
ToString16(bits) ==
  IF bits = {} THEN <<"0">>
  ELSE LET top == CHOOSE i \in bits : \A j \in bits : j <= i
           n   == (top \div 4) + 1
       IN  [k \in 1 .. n |-> HexChars[DigitAt(bits, n - k) + 1]]

\* Math.log2 of a power of two
Log2(value) == CHOOSE k \in 0 .. 17 : PowerOfTwo(k) = value

\* tiles.forEach(tile => { if (tile && tile.value > 0)
\*   grid[tile.row][tile.col] = Math.log2(tile.value); })
RECURSIVE PlacePowers(_, _)
PlacePowers(grid, ts) ==
  IF ts = <<>> THEN grid
  ELSE LET t == Head(ts)
       IN  PlacePowers(IF t.value > 0
                       THEN [grid EXCEPT ![t.row][t.col] = Log2(t.value)]
                       ELSE grid,
                       Tail(ts))

\* A packing that walks the grid column by column.
bitPositionByColumn(r, c) == 4 * (GRID_SIZE * c + r)

\* bitPosition when the loops are at (r, c): 4 more for every cell passed
bitPosition(r, c) == 4 * (GRID_SIZE * r + c)

packBoard(ts) ==
  LET grid   == PlacePowers([r \in Idx |-> [c \in Idx |-> 0]], ts)
      packed == UNION {ShiftLeft(BigInt(grid[cell[1]][cell[2]]),
                                 bitPosition(cell[1], cell[2])) : cell \in AllCells}
  IN  <<"0", "x">> \o ToString16(packed)

packMoves(ms) ==
  IF Len(ms) = 0 THEN <<"0", "x", "0">>
  ELSE LET packed == UNION {ShiftLeft(BigInt(ms[i + 1] % 4), i * 2) :
                              i \in 0 .. Len(ms) - 1}
       IN  <<"0", "x">> \o ToString16(packed)

\* The decoders.  The digit of weight 16^j of a "0x" string, 0 beyond its
\* length.
HexValue(ch) == CHOOSE v \in 0 .. 15 : HexChars[v + 1] = ch
NibbleOf(hex, j) ==
  LET digits == SubSeq(hex, 3, Len(hex))
  IN  IF j < Len(digits) THEN HexValue(digits[Len(digits) - j]) ELSE 0

\* unpack: the 16 nibbles read back, cell (0, 0) from the lowest
unpack(hex) ==
  [r \in Idx |-> [c \in Idx |->
     LET n == NibbleOf(hex, GRID_SIZE * r + c)
     IN  IF n = 0 THEN 0 ELSE PowerOfTwo(n)]]

\* the two bits of weight 4^i
PairOf(hex, i) ==
  LET n == NibbleOf(hex, i \div 2)
  IN  IF i % 2 = 0 THEN n % 4 ELSE n \div 4

\* unpackMoves: the pairs of bits read back, lowest first, as far as the
\* value goes
unpackMoves(hex) ==
  LET digits == SubSeq(hex, 3, Len(hex))
      used2  == {i \in 0 .. 2 * Len(digits) - 1 : PairOf(hex, i) # 0}
      count  == IF used2 = {} THEN 0
                ELSE (CHOOSE i \in used2 : \A j \in used2 : j <= i) + 1
  IN  [i \in 1 .. count |-> PairOf(hex, i - 1)]

PackValues == {2, 32768, 65536}
Staircase ==
  [r \in Idx |-> [c \in Idx |-> PowerOfTwo(((GRID_SIZE * r + c) % 15) + 1)]]
Sparse(f) ==
  [r \in Idx |-> [c \in Idx |-> IF <<r, c>> \in DOMAIN f THEN f[<<r, c>>] ELSE 0]]
PackLayouts ==
  UNION {{Sparse(f) : f \in [S -> PackValues]} :
           S \in {S \in SUBSET AllCells : Cardinality(S) <= MaxPacked}}
  \cup {[r \in Idx |-> [c \in Idx |-> v]] : v \in PackValues}
  \cup {Checkerboard, Staircase}
  \cup {[Staircase EXCEPT ![cell[1]][cell[2]] = v] :
          cell \in AllCells, v \in {65536, 131072}}

MoveLogs == UNION {[1 .. n -> 0 .. 3] : n \in 0 .. MaxLog}

CodecProbes ==
  {[call |-> "packBoard", layout |-> l, done |-> FALSE] : l \in PackLayouts}
  \cup
  {[call |-> "packMoves", log |-> ms, done |-> FALSE] : ms \in MoveLogs}

CodecInit ==
  /\ Mounted
  /\ storage = [s \in {DefaultSeason} |-> <<>>]
  /\ last = "mount"
  /\ used = [moves |-> 0, events |-> 0]
  /\ probe \in CodecProbes

\* packBoard(tiles); nothing in it throws for values that are powers of two
PackBoardCall ==
  /\ probe.call = "packBoard" /\ ~probe.done
  /\ probe' = [call |-> "packBoard", layout |-> probe.layout, done |-> TRUE,
               threw |-> FALSE,
               result |-> packBoard(TilesOfLayout(probe.layout))]
  /\ UNCHANGED sessionVars

PackMovesCall ==
  /\ probe.call = "packMoves" /\ ~probe.done
  /\ probe' = [call |-> "packMoves", log |-> probe.log, done |-> TRUE,
               result |-> packMoves(probe.log)]
  /\ UNCHANGED sessionVars

CodecNext == PackBoardCall \/ PackMovesCall

SpecCodec == CodecInit /\ [][CodecNext]_vars

\* the values of a layout
ValuesOf(layout) == {layout[cell[1]][cell[2]] : cell \in AllCells}

\* the exponent of a cell's value, 0 for an empty cell
ExponentAt(layout, r, c) ==
  IF layout[r][c] = 0 THEN 0
  ELSE CHOOSE k \in 1 .. 17 : PowerOfTwo(k) = layout[r][c]

\* C18 (board packing): for a board whose values are at most 32768, the
\* string packBoard returns is "0x" and at most 16 hexadecimal digits, the
\* digit of weight 16^(4r + c) (bits 4(4r + c) .. 4(4r + c) + 3) being
\* log2 of the value at (r, c), 0 for an empty cell, and reading the 16
\* nibbles back gives the board.
C18_BoardPacking ==
  (probe.call = "packBoard" /\ probe.done
     /\ \A v \in ValuesOf(probe.layout) : v <= 32768) =>
     /\ ~probe.threw
     /\ SubSeq(probe.result, 1, 2) = <<"0", "x">>
     /\ Len(probe.result) \in 3 .. 18
     /\ \A cell \in AllCells :
          NibbleOf(probe.result, 4 * cell[1] + cell[2])
            = ExponentAt(probe.layout, cell[1], cell[2])
     /\ unpack(probe.result) = probe.layout

\* the board of sixteen different exponents 1 .. 15, 1 has been packed
C18_Witness ==
  /\ probe.call = "packBoard" /\ probe.done
  /\ probe.layout = Staircase
  /\ probe.result = <<"0", "x", "1", "f", "e", "d", "c", "b", "a", "9", "8",
                      "7", "6", "5", "4", "3", "2", "1">>

\* C19 (packing overflow): given a tile of value 65536 or more, packBoard
\* fails instead of returning an encoding.
C19_PackingOverflow ==
  (probe.call = "packBoard" /\ probe.done
     /\ \E v \in ValuesOf(probe.layout) : v >= 65536) =>
     probe.threw

\* C20 (move packing round trip): the pair of bits of weight 4^i of the
\* value packMoves returns is move i, and decoding the value gives the log
\* back, for every log.
C20_MovesRoundTrip ==
  (probe.call = "packMoves" /\ probe.done) =>
     /\ \A i \in 1 .. Len(probe.log) : PairOf(probe.result, i - 1) = probe.log[i]
     /\ unpackMoves(probe.result) = probe.log


(***************************************************************************)
(* Failures: the seed request, the stored snapshot, the hash               *)
(***************************************************************************)
\* C21 (start failure): a session never has a seed, a generator or tiles
\* while its randomness or its start time is missing; an answer that is not
\* OK or lacks a field leaves seed and prng unset and the board empty, so
\* that no move is accepted.
C21_StartFailure ==
  (randomness = "" \/ startTime = 0) =>
     (seed = <<>> /\ prng = 0 /\ tiles = <<>>)


(***************************************************************************)
(* Two seasons.  The page is opened on the default season; localStorage    *)
(* holds nothing for it and, for the other season, what an earlier visit   *)
(* or another version of the page has left: the snapshot of a session just *)
(* started (SpecSeasons), or a snapshot without seed, a snapshot without   *)
(* commitment, a text that is not JSON (SpecForeign).                      *)
(***************************************************************************)
OtherSeason == "base-s0"

StartedSnapshot ==
  LET sd == SeedDigest("r2", 1002)
  IN  Snapshot(generateInitialTiles(SeededRandom(sd)).initialTiles, 0, FALSE,
               FALSE, sd, 1002, <<>>, "r2", INITIAL_MOVES_HASH)

StartedEntry ==
  <<StartedSnapshot,
    [prng |-> generateInitialTiles(SeededRandom(StartedSnapshot.seed)).prng,
     inFlight |-> 0]>>

\* a game that was over after one move, as a snapshot of unknown origin
ForeignSnapshot ==
  [StartedSnapshot EXCEPT !.score = 4, !.isGameOver = TRUE, !.isWon = TRUE,
                          !.moves = <<3>>,
                          !.finalMovesHash = HashOfMoves(<<3>>)]

ForeignEntries ==
  {<<[ForeignSnapshot EXCEPT !.seed = <<>>], [prng |-> 0, inFlight |-> 0]>>,
   <<[ForeignSnapshot EXCEPT !.finalMovesHash = <<>>], [prng |-> 0, inFlight |-> 0]>>,
   <<[text |-> "{"], [prng |-> 0, inFlight |-> 0]>>}

SeasonsInit ==
  /\ Mounted
  /\ storage = [s \in Seasons |-> IF s = OtherSeason THEN StartedEntry ELSE <<>>]
  /\ last = "mount"
  /\ used = [moves |-> 0, events |-> 0]
  /\ probe = NoProbe

ForeignInit ==
  /\ Mounted
  /\ \E e \in ForeignEntries :
       storage = [s \in Seasons |-> IF s = OtherSeason THEN e ELSE <<>>]
  /\ last = "mount"
  /\ used = [moves |-> 0, events |-> 0]
  /\ probe = NoProbe

\* The disturbances of a run are the changes of season and the seed requests
\* that fail: the page is not reloaded, the new-game button is not pressed
\* and no hash fails.
SeasonsNext ==
  \/ \E d \in Directions : PerformMove(d) /\ UNCHANGED probe
  \/ \E h \in hashing : HashDone(h) /\ UNCHANGED probe
  \/ \E t \in timers : SpawnTimeout(t) /\ UNCHANGED probe
  \/ \E response \in Responses : StartGame(response) /\ UNCHANGED probe
  \/ \E s \in Seasons : SelectSeason(s) /\ UNCHANGED probe
  \/ \E i \in inits : InitLoad(i) /\ UNCHANGED probe
  \/ TransitionEnd /\ UNCHANGED probe

SpecSeasons == SeasonsInit /\ [][SeasonsNext]_vars

SpecForeign == ForeignInit /\ [][SeasonsNext]_vars

\* the entry lacks the seed or the commitment, or is not JSON
Unusable(entry) ==
  /\ entry # <<>>
  /\ \/ ~Parsable(entry)
     \/ entry[1].seed = <<>>
     \/ entry[1].finalMovesHash = <<>>

\* C22 (unusable snapshot): when initializeGameForSeason reads a snapshot
\* that lacks the seed or the commitment, or that cannot be parsed, the
\* snapshot is removed, a newGame is in progress afterwards, and the state
\* holds no tiles, score 0, no moves and both flags false.
C22_UnusableSnapshot ==
  [][\A i \in inits :
       (inits' = inits \ {i} /\ last' # "mount" /\ Unusable(storage[i.season])) =>
          /\ storage'[i.season] = <<>>
          /\ newGameLoadingRef'
          /\ tiles' = <<>> /\ score' = 0 /\ moves' = <<>>
          /\ ~isGameOver' /\ ~isWon']_vars


\* C23 (hash failure is fatal): performMove accepts a move only in a state
\* whose commitment covers the move list; after a sha256 that failed, the
\* list holds a move the commitment does not cover, and no further move is
\* accepted.
C23_HashFailureFatal ==
  [][last' = "moveAccepted" => finalMovesHash = HashOfMoves(moves)]_vars


(***************************************************************************)
(* submitScore of the season that is verified on the client                *)
(* (components/GameControls.tsx): the game submitted is the state of a     *)
(* session, whose score and commitment may or may not be those of its      *)
(* moves.                                                                  *)
(***************************************************************************)
SubmitSeeds == {SeedDigest("r1", 1001), SeedDigest("r2", 1002)}
SubmitLogs  == {ms \in MoveLogs : Len(ms) <= 2}

Submissions ==
  {[call |-> "submitScore", seed |-> sd, moves |-> ms,
    score |-> verifyGame(sd, ms).finalScore + extra,
    finalMovesHash |-> HashOfMoves(ms \o tail),
    done |-> FALSE] :
     sd \in SubmitSeeds, ms \in SubmitLogs, extra \in {0, 4}, tail \in {<<>>, <<0>>}}

SubmitInit ==
  /\ Mounted
  /\ storage = [s \in {DefaultSeason} |-> <<>>]
  /\ last = "mount"
  /\ used = [moves |-> 0, events |-> 0]
  /\ probe \in Submissions

\* submitScore with the game data present and nothing thrown: the result of
\* the comparison is written to the console, then setHasSubmittedScore(true)
SubmitScore ==
  /\ probe.call = "submitScore" /\ ~probe.done
  /\ LET verificationResult == verifyGame(probe.seed, probe.moves)
     IN  probe' = [call |-> "submitScore", seed |-> probe.seed,
                   moves |-> probe.moves, score |-> probe.score,
                   finalMovesHash |-> probe.finalMovesHash, done |-> TRUE,
                   console |-> IF verificationResult.finalScore # probe.score
                               THEN "!!! VERIFICATION FAILED !!!"
                               ELSE "Game verification successful!",
                   submittedScore |-> probe.score,
                   hasSubmittedScore |-> TRUE]
  /\ UNCHANGED sessionVars

SubmitNext == SubmitScore

SpecSubmit == SubmitInit /\ [][SubmitNext]_vars

\* C24 (verification verdict): a game is marked as submitted exactly when
\* the replay of its moves from its seed gives its score and the chain over
\* its moves gives its commitment.
C24_VerificationVerdict ==
  (probe.call = "submitScore" /\ probe.done) =>
     (probe.hasSubmittedScore <=>
        /\ verifyGame(probe.seed, probe.moves).finalScore = probe.score
        /\ HashOfMoves(probe.moves) = probe.finalMovesHash)


(***************************************************************************)
(* Tile ids                                                                *)
(***************************************************************************)
IdsOf(ts) == {ts[i].id : i \in 1 .. Len(ts)}

IdsAreDistinct(ts) == \A i, j \in 1 .. Len(ts) : ts[i].id = ts[j].id => i = j

\* C25: the tiles on the board have distinct ids, and a tile the spawn or
\* the start of a game adds has an id greater than the id of every tile
\* that was on the board before it.
C25_TileIdsUnique ==
  [][/\ IdsAreDistinct(tiles')
     /\ last' = "spawn" =>
          \A i \in 1 .. Len(tiles') :
             tiles'[i].isNew => \A id \in IdsOf(tiles) : tiles'[i].id > id]_vars


(***************************************************************************)
(* The session with submitScore of the hook                                *)
(***************************************************************************)
\* A submission that clears what it reads.
AfterSubmitCleared == [seed |-> <<>>, randomness |-> "", startTime |-> 0]

\* submitScore reads seed, randomness and startTime and calls none of
\* their setters
AfterSubmit == [seed |-> seed, randomness |-> randomness, startTime |-> startTime]

\* submitScore of the hook.  What it sets (isSubmitting, submissionStatus,
\* hasSubmittedScore, the rank) is not part of the game state; the guard
\* on hasSubmittedScore and isSubmitting is left out, so that a submission
\* can be made in every state with a season.
SubmitInSession ==
  /\ activeSeason # NoSeason
  /\ seed' = AfterSubmit.seed
  /\ randomness' = AfterSubmit.randomness
  /\ startTime' = AfterSubmit.startTime
  /\ last' = "submitted"
  /\ UNCHANGED <<tiles, score, isGameOver, isWon, isMoving, moves,
                 finalMovesHash, prng, inFlight, isInitializing, refVars, heap,
                 taskVars, activeSeason, used>>
  /\ SaveEffect

SubmittingNext ==
  \/ Next
  \/ SubmitInSession /\ UNCHANGED probe

SpecSubmitting == Init /\ [][SubmittingNext]_vars

\* the tasks in which newGame runs or a snapshot is loaded, and the load of
\* the page
SeedSetters == {"newGame", "started", "loaded", "loadFailed", "mount"}

\* C26: accepted moves, rejected moves, spawns and score submissions leave
\* seed, randomness and startTime unchanged; the three change only in a step
\* of newGame or of the load of a snapshot (or when the page is loaded
\* again, which starts from the initial values).
C26_SeedImmutability ==
  [][last' \notin SeedSetters => UNCHANGED <<seed, randomness, startTime>>]_vars

\* a score is submitted after a move of a started game got its spawn
C26_Witness ==
  /\ last = "submitted" /\ seed # <<>> /\ randomness # "" /\ startTime # 0
  /\ moves # <<>> /\ ~isMoving


(***************************************************************************)
(* The snapshots in localStorage                                           *)
(***************************************************************************)
OneTilePerCell(ts) ==
  \A i, j \in 1 .. Len(ts) :
     (ts[i].row = ts[j].row /\ ts[i].col = ts[j].col) => i = j

\* C27: for every snapshot the save effect has written, verifyGame on the
\* seed and the moves of the snapshot returns the score of the snapshot and
\* tiles with the values of the tiles of the snapshot at every (row, col),
\* and the tiles of the snapshot are in distinct cells.
C27_SnapshotReplayConsistent ==
  \A s \in DOMAIN storage :
     storage[s] # <<>> =>
        LET savedState == storage[s][1]
            replay     == verifyGame(savedState.seed, savedState.moves)
        IN  /\ replay.finalScore = savedState.score
            /\ Cells(replay.finalTiles) = Cells(savedState.tiles)
            /\ OneTilePerCell(savedState.tiles)


\* C28: when the hash of a move accepted before a newGame resolves after
\* that newGame has reset finalMovesHash, finalMovesHash is not written.
C28_NoStaleCommitment ==
  [][(/\ last' = "hashDone"
      /\ \E h \in hashing \ hashing' : h.gameIdAtMoveStart # gameIdRef) =>
       UNCHANGED finalMovesHash]_vars


(***************************************************************************)
(* Changes of season                                                       *)
(***************************************************************************)
\* The timer was set for a move of a game that a loaded snapshot has
\* replaced: the game id is the same and the generator is another one.
SetBeforeLoad(t) == t.gameIdAtMoveStart = gameIdRef /\ t.prng # prng

\* The default season was shown with a game (the save effect has written
\* it), and the other season is shown now.
SeasonHasChanged == storage[DefaultSeason] # <<>> /\ activeSeason = OtherSeason

\* C29: the timer callback of a move accepted in one season, run after the
\* season has changed and the snapshot of the other season has been loaded,
\* writes neither tiles, isMoving, isWon nor isGameOver.
C29_NoStaleSpawnAcrossSeasons ==
  [][(/\ SeasonHasChanged
      /\ \E t \in timers \ timers' : SetBeforeLoad(t)) =>
       UNCHANGED <<tiles, isMoving, isWon, isGameOver>>]_vars


\* The game of the other season in SpecSeasons: the one its snapshot holds.
\* The initialisation of that season loads the snapshot and never calls
\* newGame, so every game with another seed was started by the
\* initialisation of the default season.
GameOfOtherSeason(savedState) ==
  /\ savedState.seed = StartedSnapshot.seed
  /\ savedState.randomness = StartedSnapshot.randomness
  /\ savedState.startTime = StartedSnapshot.startTime

\* C30: whatever the changes of season, a second change before the
\* initialisation of the first has finished included, what the save effect
\* writes under the key of a season is a state of the game of that season:
\* the key of the other season never holds a game that was started for the
\* default season.
C30_NoSeasonBleed ==
  storage[OtherSeason] # <<>> => GameOfOtherSeason(storage[OtherSeason][1])


(***************************************************************************)
(* newGame while a newGame is loading                                      *)
(***************************************************************************)
\* C31: a call of newGame made while an earlier one waits for the seed
\* request changes nothing: the game id, the game state, the timers and the
\* request in flight stay as they are; and as long as a request is in
\* flight the game id does not advance and no second request is made.
C31_NewGameExclusion ==
  [][/\ last' = "newGameIgnored" =>
          UNCHANGED <<gameIdRef, tiles, score, isGameOver, isWon, isMoving,
                      moves, finalMovesHash, prng, seed, randomness, startTime,
                      heap, fetching, timers, hashing, moveTimeoutRef,
                      newGameLoadingRef>>
     /\ (fetching # <<>> /\ last' # "mount") =>
          /\ gameIdRef' = gameIdRef
          /\ fetching' = fetching \/ fetching' = <<>>]_vars

\* the button was pressed while the seed request of an earlier press waits
C31_Witness ==
  last = "newGameIgnored" /\ fetching # <<>> /\ newGameLoadingRef /\ gameIdRef > 1


(***************************************************************************)
(* A move and its spawn on a board: the boards of isGameOver above (full   *)
(* or nearly full, stuck or not) and the boards of addRandomTile (the      *)
(* empty board and the boards with their first cells empty), in every      *)
(* direction, with the spawn as verifyGame makes it.                       *)
(***************************************************************************)
PlayLayouts == TerminalInputs \cup SpawnLayouts

PlayInit ==
  /\ Mounted
  /\ storage = [s \in {DefaultSeason} |-> <<>>]
  /\ last = "mount"
  /\ used = [moves |-> 0, events |-> 0]
  /\ probe \in {[call |-> "play", layout |-> l, done |-> FALSE] : l \in PlayLayouts}

\* the state of the replay loop on the tiles ts, before a move
PlayStart(ts) ==
  [tiles |-> ts, score |-> 0, tileIdCounter |-> Len(ts) + 1,
   prng |-> SeededRandom(SeedDigest("r1", 1001))]

\* The tile objects move reads and writes.  The tiles given are the objects
\* 1 .. n; the result holds the fields every working object ends with.
\* A move that works on the objects it is given.
WorkingRefShared(n, i) == i

\* const workingTiles = tiles.map(t => ({ ...t, ... })): a new object for
\* every tile given
WorkingRef(n, i) == n + i

\* the working object of a tile, as move leaves it
FinalOf(t, moveResult) ==
  LET all == moveResult.newTiles \o moveResult.mergedTiles
  IN  all[CHOOSE k \in 1 .. Len(all) : all[k].id = t.id]

\* the objects after the call
StoreAfterMove(ts, moveResult) ==
  [r \in (1 .. Len(ts)) \cup {WorkingRef(Len(ts), i) : i \in 1 .. Len(ts)} |->
     IF \E i \in 1 .. Len(ts) : WorkingRef(Len(ts), i) = r
     THEN FinalOf(ts[CHOOSE i \in 1 .. Len(ts) : WorkingRef(Len(ts), i) = r], moveResult)
     ELSE ts[r]]

PlayResult(p, direction, ts, moveResult) ==
  [call |-> "play", layout |-> p.layout, done |-> TRUE, direction |-> direction,
   tiles  |-> ts,
   over   |-> checkIsGameOver(ts),
   result |-> moveResult,
   store  |-> StoreAfterMove(ts, moveResult),
   after  |-> ReplayMove(PlayStart(ts), moveResult)]

\* isGameOver(tiles), move(tiles, direction) and the spawn that follows
PlayOnBoard(direction) ==
  /\ probe.call = "play" /\ ~probe.done
  /\ probe' = PlayResult(probe, direction, TilesOfLayout(probe.layout),
                         move(TilesOfLayout(probe.layout), direction))
  /\ UNCHANGED sessionVars

PlayNext == \E d \in Directions : PlayOnBoard(d)

SpecPlay == PlayInit /\ [][PlayNext]_vars

\* C32: after a move that has moved, the new tiles leave a cell empty, and
\* the spawn that follows adds one tile with two draws.
C32_SpawnHasRoom ==
  (probe.call = "play" /\ probe.done /\ probe.result.hasMoved) =>
     /\ getEmptyCells(tilesToGrid(probe.result.newTiles)) # <<>>
     /\ Len(probe.after.tiles) = Len(probe.result.newTiles) + 1
     /\ probe.after.prng.calls = 2

\* a move has moved on a board without an empty cell
C32_Witness ==
  /\ probe.call = "play" /\ probe.done /\ probe.result.hasMoved
  /\ IsFull(probe.layout)
  /\ Len(probe.after.tiles) = GRID_SIZE * GRID_SIZE


\* no direction moves the tiles
Stuck(ts) == \A d \in Directions : ~move(ts, d).hasMoved

\* C33 as stated: on every board, isGameOver(tiles) is true if and only if
\* move(tiles, d).hasMoved is false in the four directions.
C33_TerminalMeansStuckAnyBoard ==
  (probe.call = "play" /\ probe.done) =>
     /\ probe.over <=> Stuck(probe.tiles)
     /\ probe.over => ~probe.result.hasMoved

\* C33, amended: on every board with at least one tile, isGameOver(tiles)
\* is true if and only if move(tiles, d).hasMoved is false in the four
\* directions.  (On the board without tiles nothing moves and isGameOver is
\* false.)
C33_TerminalMeansStuck ==
  (probe.call = "play" /\ probe.done /\ probe.tiles # <<>>) =>
     /\ probe.over <=> Stuck(probe.tiles)
     /\ probe.over => ~probe.result.hasMoved

\* the game is over on a full board, and a move has been tried
C33_Witness ==
  /\ probe.call = "play" /\ probe.done /\ probe.over
  /\ Len(probe.tiles) = GRID_SIZE * GRID_SIZE /\ ~probe.result.hasMoved


RECURSIVE SumOfValues(_)
SumOfValues(ts) ==
  IF ts = <<>> THEN 0 ELSE Head(ts).value + SumOfValues(Tail(ts))

MergedAmong(ts) == SelectSeq(ts, LAMBDA t : t.isMerged)

\* C34: the values of newTiles add up to the values of the tiles given,
\* scoreIncrease is the sum of the values of the new tiles marked merged,
\* and newTiles and mergedTiles together are as many as the tiles given.
C34_ValueConservation ==
  (probe.call = "play" /\ probe.done) =>
     /\ SumOfValues(probe.result.newTiles) = SumOfValues(probe.tiles)
     /\ probe.result.scoreIncrease = SumOfValues(MergedAmong(probe.result.newTiles))
     /\ Len(probe.result.newTiles) + Len(probe.result.mergedTiles) = Len(probe.tiles)

\* a move with merges in several rows
C34_Witness ==
  /\ probe.call = "play" /\ probe.done
  /\ Len(probe.result.mergedTiles) >= 2
  /\ probe.result.scoreIncrease >= 12


(***************************************************************************)
(* The score of a session                                                  *)
(***************************************************************************)
\* the tasks that begin or restore a session: the reset of newGame, the
\* season effect, the load of a snapshot, the load of the page
SessionRestarts == {"newGame", "seasonEffect", "loaded", "loadFailed", "mount"}

\* the direction of the last move recorded
LastDirection(ms) == directionMap[ms[Len(ms)] + 1]

\* workingTiles.forEach(t => { grid[t.row][t.col] = t; }): the values of the
\* board as move reads it (of two tiles on one cell, the later one)
BoardMoveReads(ts) ==
  ValueLayout(PlaceTiles([r \in Idx |-> [c \in Idx |-> <<>>]], ts))

\* C35: the score is never negative; within a session it never decreases,
\* changes only in the step that accepts a move, and grows in that step by
\* the scoreIncrease of that move: the gain of the merges on the board the
\* move read.
C35_ScoreMonotonic ==
  [][/\ score' >= 0
     /\ last' \notin SessionRestarts =>
          /\ score' >= score
          /\ score' # score => last' = "moveAccepted"
          /\ last' = "moveAccepted" =>
               /\ moves' # <<>>
               /\ score' = score + SlidGain(BoardMoveReads(tiles), LastDirection(moves'))]_vars

\* a move with a merge has been accepted
C35_Witness == last = "moveAccepted" /\ score > 0 /\ isMoving


\* C36: after move(tiles, d) every tile object given has the fields it had
\* before the call: the writes of move and of slideAndMergeRow are made on
\* the copies.
C36_MoveIsPure ==
  (probe.call = "play" /\ probe.done) =>
     \A i \in 1 .. Len(probe.tiles) : probe.store[i] = probe.tiles[i]

\* a move with a merge: the copies of the winner and of the loser have been
\* written
C36_Witness ==
  /\ probe.call = "play" /\ probe.done /\ probe.result.mergedTiles # <<>>
  /\ \E i \in 1 .. Len(probe.tiles) :
        /\ probe.store[Len(probe.tiles) + i].value = 2 * probe.tiles[i].value
        /\ probe.store[Len(probe.tiles) + i].isMerged
  /\ \E i \in 1 .. Len(probe.tiles) :
        probe.store[Len(probe.tiles) + i].winnerId # NoWinner


(***************************************************************************)
(* The session with its scheduling.  The promise of the hash computation   *)
(* settles, a timer that is set fires, a seed request is answered.  Weak   *)
(* fairness of an action A is []<>~ENABLED <<A>>_vars \/ []<><<A>>_vars;    *)
(* for the timer and for the seed request the enabling condition is        *)
(* written as the guard of the action (a timer is set, a request is in     *)
(* flight).                                                                *)
(***************************************************************************)
HashResolves  == \E h \in hashing : (HashDone(h) \/ HashFail(h)) /\ UNCHANGED probe
TimerFires    == \E t \in timers : SpawnTimeout(t) /\ UNCHANGED probe
StartAnswered == \E response \in Responses : StartGame(response) /\ UNCHANGED probe

TimerIsFair   == []<>(timers = {}) \/ []<><<TimerFires>>_vars
RequestIsFair == []<>(fetching = <<>>) \/ []<><<StartAnswered>>_vars

SpecFair ==
  /\ Init /\ [][Next]_vars
  /\ WF_vars(HashResolves) /\ TimerIsFair /\ RequestIsFair

SettledBy == {"spawn", "started", "startFailed", "mount"}

MaxReplay == 3    \* length of the move logs replayed

ReplayLogs    == {ms \in MoveLogs : Len(ms) <= MaxReplay}
ReplayEntries == {-1, 4, 7} \cup (0 .. 3)

\* the entry is skipped by the loop, or its move has hasMoved false
IsIneffective(st, entry) ==
  \/ entry < 0 \/ entry > 3
  \/ ~move(st.tiles, directionMap[entry + 1]).hasMoved

Inserted(ms, n, entry) ==
  SubSeq(ms, 1, n) \o <<entry>> \o SubSeq(ms, n + 1, Len(ms))

Replays ==
  {[call |-> "verifyGame", pc |-> "start", seed |-> sd, moves |-> ms,
    at |-> n, entry |-> e] :
     sd \in {SeedDigest("r1", 1001), SeedDigest("r2", 1002)},
     ms \in ReplayLogs, n \in 0 .. MaxReplay, e \in ReplayEntries}

ReplayInit ==
  /\ Mounted
  /\ storage = [s \in {DefaultSeason} |-> <<>>]
  /\ last = "mount"
  /\ used = [moves |-> 0, events |-> 0]
  /\ probe \in {p \in Replays : p.at <= Len(p.moves)}

ReplayProbe(p, pc, i, entered, with, plain) ==
  [call |-> "verifyGame", pc |-> pc, seed |-> p.seed, moves |-> p.moves,
   at |-> p.at, entry |-> p.entry, i |-> i, entered |-> entered,
   with |-> with, plain |-> plain]

\* const prng = new SeededRandom(seed); generateInitialTiles(prng); score = 0
VerifyGameStart ==
  /\ probe.call = "verifyGame" /\ probe.pc = "start"
  /\ probe' = ReplayProbe(probe, "loop", 0, "no",
                          ReplayStart(generateInitialTiles(SeededRandom(probe.seed))),
                          ReplayStart(generateInitialTiles(SeededRandom(probe.seed))))
  /\ UNCHANGED sessionVars

\* one iteration of for (const moveDirectionIndex of moves): on the entry
\* put in only the replay of the longer log makes it
VerifyGameIterate ==
  /\ probe.call = "verifyGame" /\ probe.pc = "loop"
  /\ probe.i <= Len(probe.moves)
  /\ probe' =
       IF probe.i = probe.at /\ probe.entered = "no"
       THEN ReplayProbe(probe, "loop", probe.i,
                        IF IsIneffective(probe.with, probe.entry)
                        THEN "ineffective" ELSE "effective",
                        VerifyStep(probe.with, probe.entry), probe.plain)
       ELSE IF probe.i < Len(probe.moves)
       THEN ReplayProbe(probe, "loop", probe.i + 1, probe.entered,
                        VerifyStep(probe.with, probe.moves[probe.i + 1]),
                        VerifyStep(probe.plain, probe.moves[probe.i + 1]))
       ELSE ReplayProbe(probe, "done", probe.i, probe.entered,
                        ReplayResult(probe.with), ReplayResult(probe.plain))
  /\ UNCHANGED sessionVars

ReplayNext == VerifyGameStart \/ VerifyGameIterate

SpecReplay == ReplayInit /\ [][ReplayNext]_vars

\* C38: in verifyGame an entry outside 0..3, and a direction that does not
\* change the board, leave the tiles, the score, the tile-id counter and the
\* generator of the replay as they are, and the log with such an entry put
\* in at any place gives the finalScore and the finalTiles of the log
\* without it.
C38_ReplayIgnoresIneffective ==
  (probe.call = "verifyGame" /\ probe.pc # "start"
     /\ probe.entered = "ineffective") => probe.with = probe.plain

\* a direction that does not change the board, put in the middle of a log
\* whose later moves are accepted; the replay has returned
C38_Witness ==
  /\ probe.call = "verifyGame" /\ probe.pc = "done"
  /\ probe.entered = "ineffective"
  /\ probe.entry \in 0 .. 3
  /\ 0 < probe.at /\ probe.at < Len(probe.moves)
  /\ probe.plain.finalScore > 0
=============================================================================
